---- MODULE Spec2Model ----
(***************************************************************************)
(* Gumboard: billing-webhook reconciliation (app/api/webhooks/stripe)      *)
(* and self-serve invite redemption (join page server actions).            *)
(*                                                                         *)
(* The database is PostgreSQL accessed through Prisma.  A row that does    *)
(* not exist is an id outside the DOMAIN of the table's function.          *)
(***************************************************************************)
EXTENDS Integers, Sequences, FiniteSets, TLC

VARIABLES
    orgs,        \* organizations table: id -> row
    delivered,   \* events the payment provider has already delivered (by event id)
    applied,     \* ids of the events for which an Organization update was executed
    request,     \* the latest webhook request and the results of its provider calls
    response,    \* the HTTP response to that request
    tokens,      \* organization_self_serve_invites table: token -> row (committed)
    users,       \* users table: id -> row (committed)
    invites,     \* organization_invites table: set of rows
    sessions,    \* sessions table: set of user ids holding a login session
    now,         \* wall clock (new Date())
    lock,        \* row lock on each self-serve invite: holder or NoProc
    procs,       \* one server-action or route-handler invocation per process
    admins,      \* users.isAdmin: the ids of the users whose flag is set
    plans,       \* plans table: id -> row
    checkouts,   \* checkout sessions created at the payment provider
    reply,       \* the latest checkout request and its HTTP response
    setups,      \* organization id -> the createOrganization call that created it
    success      \* the latest checkout-success request and its redirect

vars == <<orgs, delivered, applied, request, response, tokens, users, invites, sessions, now, lock, procs,
         admins, plans, checkouts, reply, setups, success>>

webhookVars == <<orgs, delivered, applied, request, response>>
inviteVars == <<tokens, users, invites, sessions, now, lock, procs>>
setupVars == <<admins, plans, checkouts, reply, setups, success>>

\* SQL NULL / JavaScript undefined for string-valued and number-valued fields
NULL == "null"
NullInt == -1

-----------------------------------------------------------------------------
(* Bounds *)

\* distinct provider events delivered in one behaviour
MaxEvents == 2
\* concurrent server-action invocations
MaxProcs == 2
\* last clock value
MaxTime == 1

-----------------------------------------------------------------------------
(* Webhook: domains of the inputs *)

OrgIds == {"o1", "o2"}
PlanIds == {"team"}
UserIds == {"a", "b", "m", "x"}
SubIds == {"sub1"}
CustomerIds == {"cus1"}
PeriodEnds == {1, 2}

\* provider statuses appearing in events: one the switch lists and one it does not
EventStatuses == {"active", "paused"}

relevantEvents == {
    "checkout.session.completed",
    "customer.subscription.created",
    "customer.subscription.updated",
    "customer.subscription.deleted",
    "invoice.payment_succeeded",
    "invoice.payment_failed" }

\* one event kind outside the allow-list
otherEvents == {"charge.succeeded"}

Metadata(o, u, p) == [organizationId |-> o, userId |-> u, planId |-> p]

\* a Stripe.Subscription object as far as the handler reads it
Subscription(id, cus, meta, st, pe, items) ==
    [id |-> id, customer |-> cus, metadata |-> meta, status |-> st,
     current_period_end |-> pe, hasItem |-> items]

\* a Stripe.Invoice object as far as the handler reads it
Invoice(lineSub, reason, cus) ==
    [lineSubscription |-> lineSub, billing_reason |-> reason, customer |-> cus]

NoMetadata == Metadata(NULL, NULL, NULL)
NoSubscription == Subscription(NULL, NULL, NoMetadata, "active", 1, FALSE)
NoInvoice == Invoice(NULL, "manual", NULL)

\* the (status, period end, items) snapshots a subscription object carries
Snapshots ==
    {<<"active", 1, FALSE>>, <<"active", 1, TRUE>>, <<"paused", 2, TRUE>>}

SubscriptionObjects(metas) ==
    { Subscription("sub1", "cus1", m, s[1], s[2], s[3]) : m \in metas, s \in Snapshots }

\* invoices: the customer is left out only where the handler would read it
InvoiceObjects ==
    { i \in { Invoice(l, r, c) : l \in SubIds \cup {NULL},
                                r \in {"subscription_cycle", "subscription_create", "manual"},
                                c \in CustomerIds \cup {NULL} } :
        i.customer = NULL => (i.lineSubscription = NULL /\ i.billing_reason # "manual") }

\* the organizationId a metadata object carries: absent, or the id of organization o1
MetaOrgs == {"o1", NULL}

\* A Stripe.Event.  The provider gives every event its own id and never sends
\* two events that agree in everything but the id, so the record stands for
\* the event id as well.
Event(type, meta, session_subscription, sub, inv) ==
    [type |-> type, metadata |-> meta,
     session_subscription |-> session_subscription,
     subscription |-> sub, invoice |-> inv]

\* the events the provider can send
Events ==
    { Event("checkout.session.completed", Metadata(o, u, p), "sub1", NoSubscription, NoInvoice) :
        o \in MetaOrgs, u \in {NULL, "a"}, p \in PlanIds \cup {NULL} }
    \cup
    { Event(t, NoMetadata, NULL, s, NoInvoice) :
        t \in {"customer.subscription.created", "customer.subscription.updated"},
        s \in SubscriptionObjects({ Metadata(o, NULL, p) : o \in MetaOrgs, p \in PlanIds \cup {NULL} }) }
    \cup
    { Event("customer.subscription.deleted", NoMetadata, NULL,
            Subscription("sub1", "cus1", Metadata(o, NULL, NULL), "canceled", 1, TRUE), NoInvoice) :
        o \in MetaOrgs }
    \cup
    { Event(t, NoMetadata, NULL, NoSubscription, i) :
        t \in {"invoice.payment_succeeded", "invoice.payment_failed"}, i \in InvoiceObjects }
    \cup
    { Event(t, NoMetadata, NULL, NoSubscription, NoInvoice) : t \in otherEvents }

-----------------------------------------------------------------------------
(* Webhook: the handler *)

Json(status, received, error) == [status |-> status, received |-> received, error |-> error]

NoResponse == Json(0, FALSE, NULL)

\* z.string().min(1): present and non-empty
NonEmptyString(v) == v # NULL /\ v # ""

\* checkoutMetadataSchema with planId left optional
checkoutMetadataSchema_PlanOptional(m) ==
    /\ NonEmptyString(m.organizationId)
    /\ NonEmptyString(m.userId)

checkoutMetadataSchema(m) ==
    /\ NonEmptyString(m.organizationId)
    /\ NonEmptyString(m.userId)
    /\ NonEmptyString(m.planId)

\* subscriptionMetadataSchema with organizationId left optional
subscriptionMetadataSchema_OrgOptional(m) ==
    TRUE

subscriptionMetadataSchema(m) ==
    NonEmptyString(m.organizationId)

\* mapStripeStatus whose default case answers ACTIVE
mapStripeStatus_DefaultActive(status) ==
    CASE status = "active" -> "ACTIVE"
      [] status = "canceled" -> "CANCELED"
      [] status = "incomplete" -> "INCOMPLETE"
      [] status = "incomplete_expired" -> "INCOMPLETE_EXPIRED"
      [] status = "past_due" -> "PAST_DUE"
      [] status = "trialing" -> "TRIALING"
      [] status = "unpaid" -> "UNPAID"
      [] OTHER -> "ACTIVE"

mapStripeStatus(status) ==
    CASE status = "active" -> "ACTIVE"
      [] status = "canceled" -> "CANCELED"
      [] status = "incomplete" -> "INCOMPLETE"
      [] status = "incomplete_expired" -> "INCOMPLETE_EXPIRED"
      [] status = "past_due" -> "PAST_DUE"
      [] status = "trialing" -> "TRIALING"
      [] status = "unpaid" -> "UNPAID"
      [] OTHER -> "INACTIVE"

\* new Date(seconds * 1000): milliseconds since the epoch
DateOfSeconds(s) == s * 1000

FreshOrganization(name) ==
    [name |-> name, stripeCustomerId |-> NULL, stripeSubscriptionId |-> NULL,
     stripeCurrentPeriodEnd |-> NullInt, subscriptionStatus |-> "INACTIVE", planId |-> NULL]

\* an organization as checkout.session.completed leaves it
SubscribedOrganization(name, planId) ==
    [name |-> name, stripeCustomerId |-> "cus1", stripeSubscriptionId |-> "sub1",
     stripeCurrentPeriodEnd |-> DateOfSeconds(1), subscriptionStatus |-> "ACTIVE",
     planId |-> planId]

\* the columns of organizations that carry a unique index
UniqueColumns == {"stripeCustomerId", "stripeSubscriptionId"}

\* db.organization.update({where: {id}, data}): throws when no row has the id
\* (P2025) or when a unique index would be violated (P2002)
organizationUpdate(o, id, data) ==
    IF id \notin DOMAIN o
    THEN [threw |-> TRUE, orgs |-> o]
    ELSE IF \E c \in UniqueColumns \cap DOMAIN data, other \in DOMAIN o \ {id} :
                data[c] # NULL /\ o[other][c] = data[c]
    THEN [threw |-> TRUE, orgs |-> o]
    ELSE [threw |-> FALSE,
          orgs |-> [o EXCEPT ![id] =
                      [f \in DOMAIN @ |-> IF f \in DOMAIN data THEN data[f] ELSE @[f]]]]

\* what the handler leaves behind: the table and the response
Outcome(o, r) == [orgs |-> o, response |-> r, wrote |-> FALSE]

Received(o) == Outcome(o, Json(200, TRUE, NULL))

\* the acknowledgment after db.organization.update returned
Updated(o) == [orgs |-> o, response |-> Json(200, TRUE, NULL), wrote |-> TRUE]

\* the outer catch of POST
HandlerFailed(o) == Outcome(o, Json(500, FALSE, "Webhook handler failed"))

\* outcomes of stripe.subscriptions.retrieve and stripe.subscriptions.list
RetrieveOutcomes ==
    {[ok |-> FALSE, subscription |-> NoSubscription]}
    \cup { [ok |-> TRUE, subscription |-> s] :
             s \in SubscriptionObjects({ Metadata(o, "a", "team") : o \in MetaOrgs }) }

ListOutcomes == {"throws", "empty", "sub1"}

NoRetrieve == [ok |-> FALSE, subscription |-> NoSubscription]

getSubscriptionIdFromInvoice(invoice, listed) ==
    IF invoice.lineSubscription # NULL
    THEN invoice.lineSubscription
    ELSE IF invoice.billing_reason \in {"subscription_create", "subscription_cycle"}
    THEN IF invoice.customer = NULL
         THEN NULL
         ELSE IF listed \in {"throws", "empty"} THEN NULL ELSE listed
    ELSE NULL

\* checkoutSessionCompleted that stores the plan without the subscription reference
checkoutSessionCompleted_NoSubscriptionRef(o, event, retrieved) ==
    IF ~checkoutMetadataSchema(event.metadata)
    THEN Outcome(o, Json(400, FALSE, "Invalid session metadata"))
    ELSE IF ~retrieved.ok
    THEN HandlerFailed(o)
    ELSE LET subscription == retrieved.subscription IN
         IF ~subscription.hasItem
         THEN Outcome(o, Json(400, FALSE, "No subscription items found"))
         ELSE LET u == organizationUpdate(o, event.metadata.organizationId,
                          [stripeCustomerId |-> subscription.customer,
                           stripeCurrentPeriodEnd |-> DateOfSeconds(subscription.current_period_end),
                           subscriptionStatus |-> mapStripeStatus(subscription.status),
                           planId |-> event.metadata.planId])
              IN IF u.threw THEN HandlerFailed(o) ELSE Updated(u.orgs)

checkoutSessionCompleted(o, event, retrieved) ==
    IF ~checkoutMetadataSchema(event.metadata)
    THEN Outcome(o, Json(400, FALSE, "Invalid session metadata"))
    ELSE IF ~retrieved.ok
    THEN HandlerFailed(o)
    ELSE LET subscription == retrieved.subscription IN
         IF ~subscription.hasItem
         THEN Outcome(o, Json(400, FALSE, "No subscription items found"))
         ELSE LET u == organizationUpdate(o, event.metadata.organizationId,
                          [stripeCustomerId |-> subscription.customer,
                           stripeSubscriptionId |-> subscription.id,
                           stripeCurrentPeriodEnd |-> DateOfSeconds(subscription.current_period_end),
                           subscriptionStatus |-> mapStripeStatus(subscription.status),
                           planId |-> event.metadata.planId])
              IN IF u.threw THEN HandlerFailed(o) ELSE Updated(u.orgs)

\* subscriptionCreatedOrUpdated with an ordering guard: a snapshot whose period
\* end is older than the stored one is acknowledged and not applied
subscriptionCreatedOrUpdated_KeepsNewer(o, event) ==
    LET subscription == event.subscription
        planId == subscription.metadata.planId
        id == subscription.metadata.organizationId
    IN  IF ~subscriptionMetadataSchema(subscription.metadata)
        THEN Outcome(o, Json(400, FALSE, "Invalid subscription metadata"))
        ELSE IF ~subscription.hasItem
        THEN Outcome(o, Json(400, FALSE, "No subscription items found"))
        ELSE IF /\ id \in DOMAIN o
                /\ o[id].stripeCurrentPeriodEnd > DateOfSeconds(subscription.current_period_end)
        THEN Received(o)
        ELSE LET base == [stripeSubscriptionId |-> subscription.id,
                          stripeCurrentPeriodEnd |-> DateOfSeconds(subscription.current_period_end),
                          subscriptionStatus |-> mapStripeStatus(subscription.status)]
                 updateData == IF planId # NULL /\ planId # ""
                               THEN base @@ [planId |-> planId]
                               ELSE base
                 u == organizationUpdate(o, id, updateData)
             IN IF u.threw THEN HandlerFailed(o) ELSE Updated(u.orgs)

subscriptionCreatedOrUpdated(o, event) ==
    LET subscription == event.subscription
        planId == subscription.metadata.planId
    IN  IF ~subscriptionMetadataSchema(subscription.metadata)
        THEN Outcome(o, Json(400, FALSE, "Invalid subscription metadata"))
        ELSE IF ~subscription.hasItem
        THEN Outcome(o, Json(400, FALSE, "No subscription items found"))
        ELSE LET base == [stripeSubscriptionId |-> subscription.id,
                          stripeCurrentPeriodEnd |-> DateOfSeconds(subscription.current_period_end),
                          subscriptionStatus |-> mapStripeStatus(subscription.status)]
                 updateData == IF planId # NULL /\ planId # ""
                               THEN base @@ [planId |-> planId]
                               ELSE base
                 u == organizationUpdate(o, subscription.metadata.organizationId, updateData)
             IN IF u.threw THEN HandlerFailed(o) ELSE Updated(u.orgs)

\* subscriptionDeleted that also forgets the provider customer
subscriptionDeleted_ClearsCustomer(o, event) ==
    LET organizationId == event.subscription.metadata.organizationId IN
    IF organizationId = NULL \/ organizationId = ""
    THEN Outcome(o, Json(400, FALSE, "Missing organizationId"))
    ELSE LET u == organizationUpdate(o, organizationId,
                     [stripeCustomerId |-> NULL,
                      stripeSubscriptionId |-> NULL,
                      stripeCurrentPeriodEnd |-> NullInt,
                      subscriptionStatus |-> "INACTIVE",
                      planId |-> NULL])
         IN IF u.threw THEN HandlerFailed(o) ELSE Updated(u.orgs)

\* subscriptionDeleted without the organizationId guard
subscriptionDeleted_NoGuard(o, event) ==
    LET organizationId == event.subscription.metadata.organizationId
        u == organizationUpdate(o, organizationId,
                     [stripeSubscriptionId |-> NULL,
                      stripeCurrentPeriodEnd |-> NullInt,
                      subscriptionStatus |-> "INACTIVE",
                      planId |-> NULL])
    IN IF u.threw THEN HandlerFailed(o) ELSE Updated(u.orgs)

subscriptionDeleted(o, event) ==
    LET organizationId == event.subscription.metadata.organizationId IN
    IF organizationId = NULL \/ organizationId = ""
    THEN Outcome(o, Json(400, FALSE, "Missing organizationId"))
    ELSE LET u == organizationUpdate(o, organizationId,
                     [stripeSubscriptionId |-> NULL,
                      stripeCurrentPeriodEnd |-> NullInt,
                      subscriptionStatus |-> "INACTIVE",
                      planId |-> NULL])
         IN IF u.threw THEN HandlerFailed(o) ELSE Updated(u.orgs)

\* the inner try/catch swallows a failed retrieve and a failed update alike
invoicePaymentSucceeded(o, event, listed, retrieved) ==
    LET subscriptionId == getSubscriptionIdFromInvoice(event.invoice, listed) IN
    IF subscriptionId = NULL
    THEN Received(o)
    ELSE IF event.invoice.billing_reason # "subscription_cycle"
    THEN Received(o)
    ELSE IF ~retrieved.ok
    THEN Received(o)
    ELSE LET subscription == retrieved.subscription
             organizationId == subscription.metadata.organizationId
         IN IF organizationId = NULL \/ organizationId = ""
            THEN Received(o)
            ELSE IF ~subscription.hasItem
            THEN Received(o)
            ELSE LET u == organizationUpdate(o, organizationId,
                             [stripeCurrentPeriodEnd |-> DateOfSeconds(subscription.current_period_end),
                              subscriptionStatus |-> "ACTIVE"])
                 IN IF u.threw THEN Received(o) ELSE Updated(u.orgs)

invoicePaymentFailed(o, event, listed, retrieved) ==
    LET subscriptionId == getSubscriptionIdFromInvoice(event.invoice, listed) IN
    IF subscriptionId = NULL
    THEN Received(o)
    ELSE IF ~retrieved.ok
    THEN Received(o)
    ELSE LET organizationId == retrieved.subscription.metadata.organizationId IN
         IF organizationId = NULL \/ organizationId = ""
         THEN Received(o)
         ELSE LET u == organizationUpdate(o, organizationId, [subscriptionStatus |-> "PAST_DUE"])
              IN IF u.threw THEN Received(o) ELSE Updated(u.orgs)

\* handleEvent answering an event outside the allow-list with an error
handleEvent_RejectsOther(o, event, listed, retrieved) ==
    IF event.type \notin relevantEvents
    THEN Outcome(o, Json(400, FALSE, "Unhandled event type"))
    ELSE CASE event.type = "checkout.session.completed" ->
                checkoutSessionCompleted(o, event, retrieved)
           [] event.type \in {"customer.subscription.created", "customer.subscription.updated"} ->
                subscriptionCreatedOrUpdated(o, event)
           [] event.type = "customer.subscription.deleted" ->
                subscriptionDeleted(o, event)
           [] event.type = "invoice.payment_succeeded" ->
                invoicePaymentSucceeded(o, event, listed, retrieved)
           [] event.type = "invoice.payment_failed" ->
                invoicePaymentFailed(o, event, listed, retrieved)
           [] OTHER -> Received(o)

\* the body of POST once the signature verified and constructEvent returned `event`
handleEvent(o, event, listed, retrieved) ==
    IF event.type \notin relevantEvents
    THEN Received(o)
    ELSE CASE event.type = "checkout.session.completed" ->
                checkoutSessionCompleted(o, event, retrieved)
           [] event.type \in {"customer.subscription.created", "customer.subscription.updated"} ->
                subscriptionCreatedOrUpdated(o, event)
           [] event.type = "customer.subscription.deleted" ->
                subscriptionDeleted(o, event)
           [] event.type = "invoice.payment_succeeded" ->
                invoicePaymentSucceeded(o, event, listed, retrieved)
           [] event.type = "invoice.payment_failed" ->
                invoicePaymentFailed(o, event, listed, retrieved)
           [] OTHER -> Received(o)

\* the `where: {id}` of the db.organization.update call the handler reaches for an
\* event, NULL when it returns before any update
updateTarget(event, listed, retrieved) ==
    CASE event.type = "checkout.session.completed" ->
            IF checkoutMetadataSchema(event.metadata) /\ retrieved.ok /\ retrieved.subscription.hasItem
            THEN event.metadata.organizationId ELSE NULL
      [] event.type \in {"customer.subscription.created", "customer.subscription.updated"} ->
            IF subscriptionMetadataSchema(event.subscription.metadata) /\ event.subscription.hasItem
            THEN event.subscription.metadata.organizationId ELSE NULL
      [] event.type = "customer.subscription.deleted" ->
            event.subscription.metadata.organizationId
      [] event.type = "invoice.payment_succeeded" ->
            IF /\ getSubscriptionIdFromInvoice(event.invoice, listed) # NULL
               /\ event.invoice.billing_reason = "subscription_cycle"
               /\ retrieved.ok
               /\ retrieved.subscription.hasItem
            THEN retrieved.subscription.metadata.organizationId ELSE NULL
      [] event.type = "invoice.payment_failed" ->
            IF getSubscriptionIdFromInvoice(event.invoice, listed) # NULL /\ retrieved.ok
            THEN retrieved.subscription.metadata.organizationId ELSE NULL
      [] OTHER -> NULL

\* which outbound provider calls the handler makes for an event
CallsList(event) ==
    /\ event.type \in {"invoice.payment_succeeded", "invoice.payment_failed"}
    /\ event.invoice.lineSubscription = NULL
    /\ event.invoice.billing_reason \in {"subscription_create", "subscription_cycle"}
    /\ event.invoice.customer # NULL

CallsRetrieve(event, listed) ==
    \/ event.type = "checkout.session.completed" /\ checkoutMetadataSchema(event.metadata)
    \/ /\ event.type = "invoice.payment_succeeded"
       /\ getSubscriptionIdFromInvoice(event.invoice, listed) # NULL
       /\ event.invoice.billing_reason = "subscription_cycle"
    \/ /\ event.type = "invoice.payment_failed"
       /\ getSubscriptionIdFromInvoice(event.invoice, listed) # NULL

\* signature header of a request: absent, not verifying, or verifying
Signatures == {"none", "bad", "valid"}

\* the body of a request whose signature did not verify is never parsed
NoEvent == Event("none", NoMetadata, NULL, NoSubscription, NoInvoice)

Request(signature, event, listed, retrieved) ==
    [signature |-> signature,
     event |-> (IF signature = "valid" THEN event ELSE NoEvent),
     listed |-> listed, retrieved |-> retrieved]

\* handleRequest that only checks that a signature header is present
handleRequest_PresenceOnly(o, signature, event, listed, retrieved) ==
    IF signature = "none"
    THEN Outcome(o, Json(400, FALSE, "No signature"))
    ELSE handleEvent(o, event, listed, retrieved)

\* POST up to the relevance filter: the signature checks, then the event is handled
handleRequest(o, signature, event, listed, retrieved) ==
    IF signature = "none"
    THEN Outcome(o, Json(400, FALSE, "No signature"))
    ELSE IF signature # "valid"
    THEN Outcome(o, Json(400, FALSE, "Webhook Error"))
    ELSE handleEvent(o, event, listed, retrieved)

\* the provider sends a new event (a fresh event id) or redelivers one
Deliverable ==
    IF Cardinality(delivered) < MaxEvents THEN Events ELSE delivered

\* POST /api/webhooks/stripe.  A request that verifies carries an event of the
\* provider; one that does not verify carries any body at all.
POST(signature, event, listed, retrieved) ==
    LET out == handleRequest(orgs, signature, event, listed, retrieved) IN
    /\ orgs' = out.orgs
    /\ request' = Request(signature, event, listed, retrieved)
    /\ response' = out.response
    /\ delivered' = (IF signature = "valid" THEN delivered \cup {event} ELSE delivered)
    /\ applied' = (IF out.wrote THEN applied \cup {event} ELSE applied)
    /\ UNCHANGED inviteVars
    /\ UNCHANGED setupVars

Webhook ==
    \E signature \in Signatures :
      \E event \in Deliverable :
        \E listed \in (IF signature = "valid" /\ CallsList(event)
                       THEN ListOutcomes ELSE {"empty"}) :
          \E retrieved \in (IF signature = "valid" /\ CallsRetrieve(event, listed)
                            THEN RetrieveOutcomes ELSE {NoRetrieve}) :
            POST(signature, event, listed, retrieved)

NoRequest == Request("none", NoEvent, "empty", NoRetrieve)

-----------------------------------------------------------------------------
(* Checkout: POST /api/stripe/checkout and createCheckoutSession *)

\* price references of the payment provider
Prices == {"price_a", "price_b"}

\* a plans row as far as the route reads it
Plan(stripePriceId) == [stripePriceId |-> stripePriceId]

\* JSON body of a checkout request: planId, and a price field the schema does
\* not declare
CheckoutBody(planId, price) == [planId |-> planId, price |-> price]

\* the planId of a body: a stored plan, a stored plan whose price reference
\* is empty, an id without row, an empty string, or none
CheckoutBodies ==
    { CheckoutBody(planId, price) :
        planId \in {"team", "legacy", "ghost", "", NULL}, price \in Prices \cup {NULL} }

\* checkoutRequestSchema: planId is z.string().min(1)
checkoutRequestSchema(body) == NonEmptyString(body.planId)

\* the arguments of stripe.checkout.sessions.create
createCheckoutSession(organizationId, userId, stripePriceId, planId) ==
    [price |-> stripePriceId, client_reference_id |-> userId,
     metadata |-> Metadata(organizationId, userId, planId)]

NoSession == createCheckoutSession(NULL, NULL, NULL, NULL)

CheckoutReply(caller, body, status, error, session) ==
    [caller |-> caller, body |-> body, status |-> status, error |-> error, session |-> session]

NoReply == CheckoutReply(NULL, CheckoutBody(NULL, NULL), 0, NULL, NoSession)

\* the route handing the provider the price of the body when the body has one
checkoutHandler_TrustsBodyPrice(caller, body, created) ==
    LET Refused(status, error) == CheckoutReply(caller, body, status, error, NoSession) IN
    IF caller = NULL
    THEN Refused(401, "Unauthorized")
    ELSE IF ~checkoutRequestSchema(body)
    THEN Refused(400, "Invalid request")
    ELSE IF body.planId \notin DOMAIN plans
    THEN Refused(404, "Plan not found")
    ELSE IF plans[body.planId].stripePriceId \in {NULL, ""}
    THEN Refused(400, "Plan is not configured for payments")
    ELSE IF caller \notin DOMAIN users \/ users[caller].organizationId = NULL
    THEN Refused(404, "No organization found")
    ELSE IF caller \notin admins
    THEN Refused(403, "Only admins can manage billing")
    ELSE IF orgs[users[caller].organizationId].stripeCustomerId # NULL
    THEN Refused(400, "Organization already has an active subscription")
    ELSE IF ~created
    THEN Refused(500, "Failed to create checkout session")
    ELSE CheckoutReply(caller, body, 200, NULL,
             createCheckoutSession(users[caller].organizationId, caller,
                                   IF body.price # NULL THEN body.price
                                   ELSE plans[body.planId].stripePriceId,
                                   body.planId))

\* POST /api/stripe/checkout for a caller (session user or NULL) and a body;
\* `created` tells whether stripe.checkout.sessions.create returned or threw
checkoutHandler(caller, body, created) ==
    LET Refused(status, error) == CheckoutReply(caller, body, status, error, NoSession) IN
    IF caller = NULL
    THEN Refused(401, "Unauthorized")
    ELSE IF ~checkoutRequestSchema(body)
    THEN Refused(400, "Invalid request")
    ELSE IF body.planId \notin DOMAIN plans
    THEN Refused(404, "Plan not found")
    ELSE IF plans[body.planId].stripePriceId \in {NULL, ""}
    THEN Refused(400, "Plan is not configured for payments")
    ELSE IF caller \notin DOMAIN users \/ users[caller].organizationId = NULL
    THEN Refused(404, "No organization found")
    ELSE IF caller \notin admins
    THEN Refused(403, "Only admins can manage billing")
    ELSE IF orgs[users[caller].organizationId].stripeCustomerId # NULL
    THEN Refused(400, "Organization already has an active subscription")
    ELSE IF ~created
    THEN Refused(500, "Failed to create checkout session")
    ELSE CheckoutReply(caller, body, 200, NULL,
             createCheckoutSession(users[caller].organizationId, caller,
                                   plans[body.planId].stripePriceId, body.planId))

\* the provider gives every session its own id; sessions are kept by content
CheckoutPOST(caller, body, created) ==
    LET r == checkoutHandler(caller, body, created) IN
    /\ reply' = r
    /\ checkouts' = (IF r.session # NoSession THEN checkouts \cup {r.session} ELSE checkouts)
    /\ UNCHANGED <<admins, plans, setups, success>>
    /\ UNCHANGED webhookVars
    /\ UNCHANGED inviteVars

\* the arguments of a createOrganization call that went through
Setup(by, teamEmails, skipMemberLimit) ==
    [by |-> by, teamEmails |-> teamEmails, skipMemberLimit |-> skipMemberLimit]

\* GET /api/stripe/checkout-success: the session user, the checkout session the
\* provider returned for session_id with its payment_status, and the redirect
Success(caller, session, payment_status, redirect) ==
    [caller |-> caller, session |-> session, payment_status |-> payment_status,
     redirect |-> redirect]

NoSuccess == Success(NULL, NoSession, NULL, NULL)

InitWebhookVars ==
    /\ orgs \in {<<>>, "o1" :> FreshOrganization("Acme")}
    /\ delivered = {}
    /\ applied = {}
    /\ request = NoRequest
    /\ response = NoResponse

InitInviteIdle ==
    /\ tokens = <<>>
    /\ users = <<>>
    /\ invites = {}
    /\ sessions = {}
    /\ now = 0
    /\ lock = <<>>
    /\ procs = <<>>

\* no user, no plan catalogue and no checkout is involved
InitSetupIdle ==
    /\ admins = {}
    /\ plans = <<>>
    /\ checkouts = {}
    /\ reply = NoReply
    /\ setups = <<>>
    /\ success = NoSuccess

InitWebhook == InitWebhookVars /\ InitInviteIdle /\ InitSetupIdle

NextWebhook == Webhook

SpecWebhook == InitWebhook /\ [][NextWebhook]_vars

-----------------------------------------------------------------------------
(* Webhook: the subscription status of an event, over every provider status *)

\* the statuses the switch of mapStripeStatus lists
KnownStatuses ==
    {"active", "canceled", "incomplete", "incomplete_expired", "past_due", "trialing", "unpaid"}

\* Stripe.Subscription.Status also has "paused"; a later API version may add more
ProviderStatuses == KnownStatuses \cup {"paused", "some_future_status"}

\* CREATE TYPE "SubscriptionStatus" AS ENUM (...)
SubscriptionStatusEnum ==
    {"INACTIVE", "ACTIVE", "CANCELED", "PAST_DUE", "UNPAID", "INCOMPLETE",
     "INCOMPLETE_EXPIRED", "TRIALING"}

\* subscription created/updated events of organization o1 in every status
StatusEvents ==
    { Event(t, NoMetadata, NULL,
            Subscription("sub1", "cus1", Metadata("o1", NULL, "team"), st, 1, TRUE), NoInvoice) :
        t \in {"customer.subscription.created", "customer.subscription.updated"},
        st \in ProviderStatuses }

\* the checkout-completed event of organization o1; the status comes from the
\* subscription that stripe.subscriptions.retrieve returns
StatusCheckout ==
    Event("checkout.session.completed", Metadata("o1", "a", "team"), "sub1",
          NoSubscription, NoInvoice)

SubscriptionEventInStatus ==
    \E event \in (IF Cardinality(delivered) < MaxEvents THEN StatusEvents
                   ELSE delivered \cap StatusEvents) :
        POST("valid", event, "empty", NoRetrieve)

CheckoutInStatus ==
    /\ Cardinality(delivered) < MaxEvents \/ StatusCheckout \in delivered
    /\ \E st \in ProviderStatuses :
         POST("valid", StatusCheckout, "empty",
              [ok |-> TRUE,
               subscription |-> Subscription("sub1", "cus1", Metadata("o1", "a", "team"),
                                             st, 2, TRUE)])

NextStatus == SubscriptionEventInStatus \/ CheckoutInStatus

SpecStatus == InitWebhook /\ [][NextStatus]_vars

-----------------------------------------------------------------------------
(* Invite redemption: the join page's server actions *)

FREE_PLAN_MEMBER_LIMIT == 3

Procs == 1..MaxProcs
NoProc == 0

\* the path-embedded token of a request: the stored one or an unknown one
TokenInputs == {"t1", "nope"}

\* the email field of the anonymous form
FormEmails == {"a@x", "m@x", "x@x", "new@x", "New@X", "nomail"}

\* emailSchema: z.string().email()
emailSchema(email) == email # "nomail"

\* validationResult.data.trim().toLowerCase()
cleanEmailOf(email) == IF email = "New@X" THEN "new@x" ELSE email

\* JavaScript truthiness of a nullable number: null and 0 are falsy
Truthy(n) == n # NullInt /\ n # 0

User(email, organizationId, verified) ==
    [email |-> email, organizationId |-> organizationId, emailVerified |-> verified]

members(us, organizationId) == { u \in DOMAIN us : us[u].organizationId = organizationId }

pendingInvites(inv, organizationId) ==
    { i \in inv : i.organizationId = organizationId /\ i.status = "PENDING" }

userByEmail(us, email) == { u \in DOMAIN us : us[u].email = email }

ErrInvalid == "Invalid or expired invitation link"
ErrDeactivated == "This invitation link has been deactivated"
ErrInvalidOrInactive == "Invalid or inactive invitation link"
ErrExpired == "This invitation link has expired"
ErrLimit == "This invitation link has reached its usage limit"
ErrCapacity == "Free plan is limited to 3 members total"
ErrAlreadyMember == "You are already a member of this organization"
ErrOtherOrg == "You are already a member of another organization"
ErrNotAuthenticated == "Not authenticated"
ErrEmail == "Invalid email address"
ErrUnique == "Unique constraint failed on the fields: (email)"

\* inviteChecks testing the usage limit before the expiry
inviteChecks_UsageFirst(invite, o, us, inv, time) ==
    IF Truthy(invite.usageLimit) /\ invite.usageCount >= invite.usageLimit
    THEN ErrLimit
    ELSE IF invite.expiresAt # NullInt /\ invite.expiresAt < time
    THEN ErrExpired
    ELSE IF /\ o[invite.organizationId].planId = NULL
            /\ Cardinality(members(us, invite.organizationId))
                 + Cardinality(pendingInvites(inv, invite.organizationId)) + 1
               > FREE_PLAN_MEMBER_LIMIT
    THEN ErrCapacity
    ELSE NULL

\* inviteChecks without the free-plan capacity test
inviteChecks_NoCapacity(invite, o, us, inv, time) ==
    IF invite.expiresAt # NullInt /\ invite.expiresAt < time
    THEN ErrExpired
    ELSE IF Truthy(invite.usageLimit) /\ invite.usageCount >= invite.usageLimit
    THEN ErrLimit
    ELSE NULL

\* inviteChecks without the usage-limit test before the increment
inviteChecks_NoUsageCheck(invite, o, us, inv, time) ==
    IF invite.expiresAt # NullInt /\ invite.expiresAt < time
    THEN ErrExpired
    ELSE IF /\ o[invite.organizationId].planId = NULL
            /\ Cardinality(members(us, invite.organizationId))
                 + Cardinality(pendingInvites(inv, invite.organizationId)) + 1
               > FREE_PLAN_MEMBER_LIMIT
    THEN ErrCapacity
    ELSE NULL

\* the checks both redemption paths make on the invite they read, after the
\* lookup and the isActive check: expiry, usage limit, free-plan capacity
inviteChecks(invite, o, us, inv, time) ==
    IF invite.expiresAt # NullInt /\ invite.expiresAt < time
    THEN ErrExpired
    ELSE IF Truthy(invite.usageLimit) /\ invite.usageCount >= invite.usageLimit
    THEN ErrLimit
    ELSE IF /\ o[invite.organizationId].planId = NULL
            /\ Cardinality(members(us, invite.organizationId))
                 + Cardinality(pendingInvites(inv, invite.organizationId)) + 1
               > FREE_PLAN_MEMBER_LIMIT
    THEN ErrCapacity
    ELSE NULL

\* joinOrganization, from findUnique to the capacity check: the error thrown or NULL
joinChecks(token, tk, o, us, inv, time) ==
    IF token \notin DOMAIN tk
    THEN ErrInvalid
    ELSE IF ~tk[token].isActive
    THEN ErrDeactivated
    ELSE inviteChecks(tk[token], o, us, inv, time)

\* autoCreateAccountAndJoin, from findUnique to the capacity check
autoChecks(token, tk, o, us, inv, time) ==
    IF token \notin DOMAIN tk \/ ~tk[token].isActive
    THEN ErrInvalidOrInactive
    ELSE inviteChecks(tk[token], o, us, inv, time)

\* the re-check left out
overLimit_Never(usageLimit, usageCount) == FALSE

\* the re-check comparing against one slot too many
overLimit_OffByOne(usageLimit, usageCount) == Truthy(usageLimit) /\ usageCount > usageLimit + 1

\* the re-check after the increment
overLimit(usageLimit, usageCount) == Truthy(usageLimit) /\ usageCount > usageLimit

\* email, organizationId and status belong to the invite route: the address
\* invited, the organization read with the caller, and the HTTP status
IdleProc ==
    [pc |-> "idle", action |-> "none", token |-> NULL, actor |-> NULL,
     seen |-> NullInt, branch |-> "none", count |-> NullInt, user |-> NULL,
     error |-> NULL, redirect |-> NULL,
     email |-> NULL, organizationId |-> NULL, status |-> 0]

\* a server action ends: the error it threw (or that its catch logged), the
\* redirect it issued, and the user it resolved; its inputs are gone
Done(proc, error, redirect) ==
    [proc EXCEPT !.pc = "done", !.error = error, !.redirect = redirect,
                 !.actor = NULL, !.branch = "none"]

SignIn == "/auth/signin"
Dashboard == "/dashboard"
SetSession == "/api/auth/set-session"

\* joinOrganization: auth(), then the transaction up to the capacity check
JoinStart(p, sessionUser, token) ==
    /\ procs[p].pc = "idle"
    /\ \A q \in Procs : q < p => procs[q].pc # "idle"   \* numbered in arrival order
    /\ LET started == [IdleProc EXCEPT !.action = "joinOrganization",
                                       !.token = token, !.actor = sessionUser]
           error == joinChecks(token, tokens, orgs, users, invites, now)
       IN  procs' = [procs EXCEPT ![p] =
              IF sessionUser = NULL
              THEN Done(started, ErrNotAuthenticated, NULL)
              ELSE IF error # NULL
              THEN Done(started, error, NULL)
              ELSE [started EXCEPT !.pc = "findUser", !.seen = tokens[token].usageCount]]
    /\ UNCHANGED <<tokens, users, invites, sessions, now, lock>>
    /\ UNCHANGED webhookVars
    /\ UNCHANGED setupVars

\* JoinFindUser without the check for another organization
JoinFindUser_NoOtherOrgCheck(p) ==
    /\ procs[p].pc = "findUser"
    /\ procs[p].action = "joinOrganization"
    /\ LET proc == procs[p]
           organizationId == IF proc.actor \in DOMAIN users
                             THEN users[proc.actor].organizationId ELSE NULL
       IN  procs' = [procs EXCEPT ![p] =
              IF organizationId = tokens[proc.token].organizationId
              THEN Done([proc EXCEPT !.user = proc.actor], ErrAlreadyMember, NULL)
              ELSE [proc EXCEPT !.pc = "increment", !.user = proc.actor]]
    /\ UNCHANGED <<tokens, users, invites, sessions, now, lock>>
    /\ UNCHANGED webhookVars
    /\ UNCHANGED setupVars

\* joinOrganization: tx.user.findUnique and the membership checks
JoinFindUser(p) ==
    /\ procs[p].pc = "findUser"
    /\ procs[p].action = "joinOrganization"
    /\ LET proc == procs[p]
           organizationId == IF proc.actor \in DOMAIN users
                             THEN users[proc.actor].organizationId ELSE NULL
       IN  procs' = [procs EXCEPT ![p] =
              IF organizationId = tokens[proc.token].organizationId
              THEN Done([proc EXCEPT !.user = proc.actor], ErrAlreadyMember, NULL)
              ELSE IF organizationId # NULL
              THEN Done([proc EXCEPT !.user = proc.actor], ErrOtherOrg, NULL)
              ELSE [proc EXCEPT !.pc = "increment", !.user = proc.actor]]
    /\ UNCHANGED <<tokens, users, invites, sessions, now, lock>>
    /\ UNCHANGED webhookVars
    /\ UNCHANGED setupVars

\* autoCreateAccountAndJoin: email validation, then the transaction up to the
\* capacity check; every error lands in the catch, which redirects to sign-in
AutoStart(p, email, token) ==
    /\ procs[p].pc = "idle"
    /\ \A q \in Procs : q < p => procs[q].pc # "idle"   \* numbered in arrival order
    /\ LET started == [IdleProc EXCEPT !.action = "autoCreateAccountAndJoin",
                                       !.token = token, !.actor = cleanEmailOf(email)]
           error == autoChecks(token, tokens, orgs, users, invites, now)
       IN  procs' = [procs EXCEPT ![p] =
              IF ~emailSchema(email)
              THEN Done(started, ErrEmail, NULL)
              ELSE IF error # NULL
              THEN Done(started, error, SignIn)
              ELSE [started EXCEPT !.pc = "findUser", !.seen = tokens[token].usageCount]]
    /\ UNCHANGED <<tokens, users, invites, sessions, now, lock>>
    /\ UNCHANGED webhookVars
    /\ UNCHANGED setupVars

\* AutoFindUser whose last branch does not throw: the transaction returns the
\* user of the other organization
AutoFindUser_OtherOrgContinues(p) ==
    /\ procs[p].pc = "findUser"
    /\ procs[p].action = "autoCreateAccountAndJoin"
    /\ LET proc == procs[p]
           found == userByEmail(users, proc.actor)
           user == CHOOSE u \in found : TRUE
       IN  procs' = [procs EXCEPT ![p] =
              IF found = {}
              THEN [proc EXCEPT !.pc = "increment", !.branch = "create"]
              ELSE IF users[user].organizationId = NULL
              THEN [proc EXCEPT !.pc = "increment", !.branch = "update", !.user = user]
              ELSE [proc EXCEPT !.pc = "session", !.branch = "member", !.user = user]]
    /\ UNCHANGED <<tokens, users, invites, sessions, now, lock>>
    /\ UNCHANGED webhookVars
    /\ UNCHANGED setupVars

\* autoCreateAccountAndJoin: tx.user.findUnique by email and the choice of branch
AutoFindUser(p) ==
    /\ procs[p].pc = "findUser"
    /\ procs[p].action = "autoCreateAccountAndJoin"
    /\ LET proc == procs[p]
           found == userByEmail(users, proc.actor)
           user == CHOOSE u \in found : TRUE
       IN  procs' = [procs EXCEPT ![p] =
              IF found = {}
              THEN [proc EXCEPT !.pc = "increment", !.branch = "create"]
              ELSE IF users[user].organizationId = NULL
              THEN [proc EXCEPT !.pc = "increment", !.branch = "update", !.user = user]
              ELSE IF users[user].organizationId = tokens[proc.token].organizationId
              THEN [proc EXCEPT !.pc = "session", !.branch = "member", !.user = user]
              ELSE Done([proc EXCEPT !.user = user], ErrOtherOrg, SignIn)]
    /\ UNCHANGED <<tokens, users, invites, sessions, now, lock>>
    /\ UNCHANGED webhookVars
    /\ UNCHANGED setupVars

\* the increment written outside the transaction: it is visible at once and a
\* failing re-check does not take it back
Increment_NoRollback(p) ==
    /\ procs[p].pc = "increment"
    /\ lock[procs[p].token] = NoProc
    /\ LET proc == procs[p]
           invite == tokens[proc.token]
           usageCount == invite.usageCount + 1
       IN  /\ tokens' = [tokens EXCEPT ![proc.token].usageCount = usageCount]
           /\ IF overLimit(invite.usageLimit, usageCount)
              THEN /\ procs' = [procs EXCEPT ![p] =
                         Done([proc EXCEPT !.count = usageCount], ErrLimit,
                              IF proc.action = "joinOrganization" THEN NULL ELSE SignIn)]
                   /\ lock' = lock
              ELSE /\ procs' = [procs EXCEPT ![p] =
                         [proc EXCEPT !.pc = "attach", !.count = usageCount]]
                   /\ lock' = [lock EXCEPT ![proc.token] = p]
    /\ UNCHANGED <<users, invites, sessions, now>>
    /\ UNCHANGED webhookVars
    /\ UNCHANGED setupVars

\* the increment as a read-modify-write that takes no row lock: the new count
\* is computed from the count the transaction read at its start
Increment_NoLock(p) ==
    /\ procs[p].pc = "increment"
    /\ LET proc == procs[p]
           invite == tokens[proc.token]
           usageCount == proc.seen + 1
       IN  IF overLimit(invite.usageLimit, usageCount)
           THEN procs' = [procs EXCEPT ![p] =
                      Done([proc EXCEPT !.count = usageCount], ErrLimit,
                           IF proc.action = "joinOrganization" THEN NULL ELSE SignIn)]
           ELSE procs' = [procs EXCEPT ![p] = [proc EXCEPT !.pc = "attach", !.count = usageCount]]
    /\ UNCHANGED <<tokens, users, invites, sessions, now, lock>>
    /\ UNCHANGED webhookVars
    /\ UNCHANGED setupVars

\* update({data: {usageCount: {increment: 1}}}) and the re-check.  The UPDATE
\* takes the row lock of the invite and so waits for a transaction holding
\* it; it then increments the committed count.  A failing re-check throws,
\* which rolls the increment back.
Increment(p) ==
    /\ procs[p].pc = "increment"
    /\ lock[procs[p].token] = NoProc
    /\ LET proc == procs[p]
           invite == tokens[proc.token]
           usageCount == invite.usageCount + 1
       IN  IF overLimit(invite.usageLimit, usageCount)
           THEN /\ procs' = [procs EXCEPT ![p] =
                      Done([proc EXCEPT !.count = usageCount], ErrLimit,
                           IF proc.action = "joinOrganization" THEN NULL ELSE SignIn)]
                /\ lock' = lock
           ELSE /\ procs' = [procs EXCEPT ![p] = [proc EXCEPT !.pc = "attach", !.count = usageCount]]
                /\ lock' = [lock EXCEPT ![proc.token] = p]
    /\ UNCHANGED <<tokens, users, invites, sessions, now>>
    /\ UNCHANGED webhookVars
    /\ UNCHANGED setupVars

\* the transaction commits: the incremented count becomes visible and the row lock is released
commitCount(tk, proc) == [tk EXCEPT ![proc.token].usageCount = proc.count]

\* joinOrganization: tx.user.update, commit, redirect("/dashboard")
JoinAttach(p) ==
    /\ procs[p].pc = "attach"
    /\ procs[p].action = "joinOrganization"
    /\ LET proc == procs[p] IN
       /\ users' = [users EXCEPT ![proc.user].organizationId = tokens[proc.token].organizationId]
       /\ tokens' = commitCount(tokens, proc)
       /\ lock' = [lock EXCEPT ![proc.token] = NoProc]
       /\ procs' = [procs EXCEPT ![p] = Done(proc, NULL, Dashboard)]
    /\ UNCHANGED <<invites, sessions, now>>
    /\ UNCHANGED webhookVars
    /\ UNCHANGED setupVars

\* autoCreateAccountAndJoin: tx.user.create or tx.user.update, then commit.
\* The create fails on the unique index of users.email when a concurrent
\* request committed the same email first.
AutoAttach(p) ==
    /\ procs[p].pc = "attach"
    /\ procs[p].action = "autoCreateAccountAndJoin"
    /\ LET proc == procs[p]
           organizationId == tokens[proc.token].organizationId
       IN  IF proc.branch = "create" /\ userByEmail(users, proc.actor) # {}
           THEN /\ procs' = [procs EXCEPT ![p] = Done(proc, ErrUnique, SignIn)]
                /\ UNCHANGED <<users, tokens>>
           ELSE /\ users' = (IF proc.branch = "create"
                             THEN users @@ (proc.actor :> User(proc.actor, organizationId, TRUE))
                             ELSE [users EXCEPT ![proc.user] =
                                     User(@.email, organizationId, TRUE)])
                /\ tokens' = commitCount(tokens, proc)
                /\ procs' = [procs EXCEPT ![p] =
                       [proc EXCEPT !.pc = "session",
                                    !.user = IF proc.branch = "create" THEN proc.actor ELSE @]]
    /\ lock' = [lock EXCEPT ![procs[p].token] = NoProc]
    /\ UNCHANGED <<invites, sessions, now>>
    /\ UNCHANGED webhookVars
    /\ UNCHANGED setupVars

\* autoCreateAccountAndJoin after the transaction: db.session.create, then
\* redirect(set-session) inside the try block; redirect() works by throwing,
\* so the catch runs and redirects to sign-in
CreateSession(p) ==
    /\ procs[p].pc = "session"
    /\ sessions' = sessions \cup {procs[p].user}
    /\ procs' = [procs EXCEPT ![p] = Done(procs[p], NULL, SignIn)]
    /\ UNCHANGED <<tokens, users, invites, now, lock>>
    /\ UNCHANGED webhookVars
    /\ UNCHANGED setupVars

\* time passes
Tick ==
    /\ now < MaxTime
    /\ now' = now + 1
    /\ UNCHANGED <<tokens, users, invites, sessions, lock, procs>>
    /\ UNCHANGED webhookVars
    /\ UNCHANGED setupVars

SelfServeInvite(organizationId, isActive, expiresAt, usageLimit, usageCount) ==
    [organizationId |-> organizationId, isActive |-> isActive, expiresAt |-> expiresAt,
     usageLimit |-> usageLimit, usageCount |-> usageCount]

\* the <<usageLimit, usageCount>> a stored invite starts with: unused and without
\* a limit, or with a positive limit and slots left
InitialUsage ==
    { uc \in {NullInt, 1, 2} \X {0, 1} : uc[2] = 0 \/ (uc[1] # NullInt /\ uc[2] < uc[1]) }

InitInviteVars ==
    /\ \E isActive \in BOOLEAN, expiresAt \in {NullInt, 0}, uc \in InitialUsage :
         tokens = ("t1" :> SelfServeInvite("o1", isActive, expiresAt, uc[1], uc[2]))
    /\ users = ( "a" :> User("a@x", NULL, FALSE) @@ "b" :> User("b@x", NULL, TRUE)
              @@ "m" :> User("m@x", "o1", TRUE) @@ "x" :> User("x@x", "o2", TRUE) )
    /\ invites \in { {}, {[email |-> "p@x", organizationId |-> "o1", status |-> "PENDING"]} }
    /\ sessions = {}
    /\ now = 0
    /\ lock = ("t1" :> NoProc)
    /\ procs = [p \in Procs |-> IdleProc]

InitInviteOrgs ==
    /\ \E planId \in PlanIds \cup {NULL} :
         orgs = ( "o1" :> (IF planId = NULL THEN FreshOrganization("Acme")
                           ELSE SubscribedOrganization("Acme", planId))
               @@ "o2" :> FreshOrganization("Other") )
    /\ delivered = {}
    /\ applied = {}
    /\ request = NoRequest
    /\ response = NoResponse

\* m created organization o1 and x created o2 (createOrganization sets isAdmin)
InitInviteSetup ==
    /\ admins = {"m", "x"}
    /\ plans = ("team" :> Plan("price_a"))
    /\ checkouts = {}
    /\ reply = NoReply
    /\ setups = <<>>
    /\ success = NoSuccess

InitInvite == InitInviteVars /\ InitInviteOrgs /\ InitInviteSetup

NextInvite ==
    \/ \E p \in Procs, sessionUser \in UserIds \cup {NULL}, token \in TokenInputs :
         JoinStart(p, sessionUser, token)
    \/ \E p \in Procs : JoinFindUser(p)
    \/ \E p \in Procs, email \in FormEmails, token \in TokenInputs :
         AutoStart(p, email, token)
    \/ \E p \in Procs : AutoFindUser(p)
    \/ \E p \in Procs : Increment(p)
    \/ \E p \in Procs : JoinAttach(p)
    \/ \E p \in Procs : AutoAttach(p)
    \/ \E p \in Procs : CreateSession(p)
    \/ Tick

SpecInvite == InitInvite /\ [][NextInvite]_vars

-----------------------------------------------------------------------------
(* Checkout requests against a stored plan catalogue *)

\* m is the admin of o1 and b a plain member of it, x the admin of o2, a has
\* no organization; o1 may already have a provider customer
InitCheckout ==
    /\ \E price \in Prices :
         plans = ("team" :> Plan(price) @@ "legacy" :> Plan(""))
    /\ \E stripeCustomerId \in CustomerIds \cup {NULL} :
         orgs = ( "o1" :> [FreshOrganization("Acme") EXCEPT !.stripeCustomerId = stripeCustomerId]
               @@ "o2" :> FreshOrganization("Other") )
    /\ users = ( "a" :> User("a@x", NULL, FALSE) @@ "b" :> User("b@x", "o1", TRUE)
              @@ "m" :> User("m@x", "o1", TRUE) @@ "x" :> User("x@x", "o2", TRUE) )
    /\ admins = {"m", "x"}
    /\ checkouts = {}
    /\ reply = NoReply
    /\ setups = <<>>
    /\ success = NoSuccess
    /\ delivered = {}
    /\ applied = {}
    /\ request = NoRequest
    /\ response = NoResponse
    /\ tokens = <<>>
    /\ invites = {}
    /\ sessions = {}
    /\ now = 0
    /\ lock = <<>>
    /\ procs = <<>>

NextCheckout ==
    \E caller \in UserIds \cup {NULL}, body \in CheckoutBodies, created \in BOOLEAN :
        CheckoutPOST(caller, body, created)

SpecCheckout == InitCheckout /\ [][NextCheckout]_vars

\* JoinPage: the card rendered for a token, "form" for either join form
JoinPageCard(token, tk, time) ==
    IF token \notin DOMAIN tk
    THEN "Invalid Invitation"
    ELSE IF ~tk[token].isActive
    THEN "Invitation Deactivated"
    ELSE IF tk[token].expiresAt # NullInt /\ tk[token].expiresAt < time
    THEN "Invitation Expired"
    ELSE IF Truthy(tk[token].usageLimit) /\ tk[token].usageCount >= tk[token].usageLimit
    THEN "Invitation Limit Reached"
    ELSE "form"

-----------------------------------------------------------------------------
(* Per-email invitations (POST /api/organization/invite) next to redemptions *)

\* the callers of the invite route: the admin of o1, a user who starts without
\* an organization, and no session
InviteCallers == {"m", "a", NULL}

\* the email field of the request body
InviteEmails == {"p@x", "q@x", "m@x", "nomail"}

ErrUnauthorized == "Unauthorized"
ErrInvalidRequest == "Invalid request"
ErrNoOrganization == "No organization found"
ErrOnlyAdmins == "Only admins can invite new members"
ErrMemberAlready == "User is already a member of this organization"
ErrInviteSent == "Invite already sent to this email"

OrganizationInvite(email, organizationId, status) ==
    [email |-> email, organizationId |-> organizationId, status |-> status]

\* the route returns NextResponse.json(..., {status})
Replied(proc, status, error) ==
    [proc EXCEPT !.pc = "done", !.status = status, !.error = error]

\* the capacity test of the invite route on the organization read with the caller
inviteCapacityExceeded(o, us, inv, organizationId) ==
    /\ o[organizationId].planId = NULL
    /\ Cardinality(members(us, organizationId))
         + Cardinality(pendingInvites(inv, organizationId)) + 1
       > FREE_PLAN_MEMBER_LIMIT

\* POST: auth(), body validation, the caller with organization, members and
\* pending invites (one query), the admin check and the free-plan capacity check
InviteStart(p, sessionUser, email) ==
    /\ procs[p].pc = "idle"
    /\ \A q \in Procs : q < p => procs[q].pc # "idle"   \* numbered in arrival order
    /\ LET started == [IdleProc EXCEPT !.action = "invitePOST", !.actor = sessionUser,
                                       !.email = cleanEmailOf(email)]
           organizationId == IF sessionUser \in DOMAIN users
                             THEN users[sessionUser].organizationId ELSE NULL
       IN  procs' = [procs EXCEPT ![p] =
              IF sessionUser = NULL
              THEN Replied(started, 401, ErrUnauthorized)
              ELSE IF ~emailSchema(email)
              THEN Replied(started, 400, ErrInvalidRequest)
              ELSE IF organizationId = NULL
              THEN Replied(started, 404, ErrNoOrganization)
              ELSE IF sessionUser \notin admins
              THEN Replied(started, 403, ErrOnlyAdmins)
              ELSE IF inviteCapacityExceeded(orgs, users, invites, organizationId)
              THEN Replied(started, 400, ErrCapacity)
              ELSE [started EXCEPT !.pc = "upsert", !.organizationId = organizationId]]
    /\ UNCHANGED <<tokens, users, invites, sessions, now, lock>>
    /\ UNCHANGED webhookVars
    /\ UNCHANGED setupVars

\* POST: the existing user and the existing invite are looked up, then the
\* invite is upserted to PENDING; a failing sendInviteEmail is only logged
InviteUpsert(p) ==
    /\ procs[p].pc = "upsert"
    /\ LET proc == procs[p]
           existingUser == userByEmail(users, proc.email)
           existingInvite == { i \in invites : i.email = proc.email
                                               /\ i.organizationId = proc.organizationId }
       IN  IF \E u \in existingUser : users[u].organizationId = proc.organizationId
           THEN /\ procs' = [procs EXCEPT ![p] = Replied(proc, 400, ErrMemberAlready)]
                /\ invites' = invites
           ELSE IF \E i \in existingInvite : i.status = "PENDING"
           THEN /\ procs' = [procs EXCEPT ![p] = Replied(proc, 400, ErrInviteSent)]
                /\ invites' = invites
           ELSE /\ procs' = [procs EXCEPT ![p] = Replied(proc, 201, NULL)]
                /\ invites' = (invites \ existingInvite)
                                \cup {OrganizationInvite(proc.email, proc.organizationId, "PENDING")}
    /\ UNCHANGED <<tokens, users, sessions, now, lock>>
    /\ UNCHANGED webhookVars
    /\ UNCHANGED setupVars

\* one active, unexpired self-serve invite of o1; o1 has its creator m as only
\* member and at most one pending invite
InitCapacityVars ==
    /\ \E uc \in InitialUsage :
         tokens = ("t1" :> SelfServeInvite("o1", TRUE, NullInt, uc[1], uc[2]))
    /\ users = ( "a" :> User("a@x", NULL, FALSE) @@ "b" :> User("b@x", NULL, TRUE)
              @@ "m" :> User("m@x", "o1", TRUE) @@ "x" :> User("x@x", "o2", TRUE) )
    /\ invites \in { {}, {OrganizationInvite("p@x", "o1", "PENDING")} }
    /\ sessions = {}
    /\ now = 0
    /\ lock = ("t1" :> NoProc)
    /\ procs = [p \in Procs |-> IdleProc]

InitCapacity == InitCapacityVars /\ InitInviteOrgs /\ InitInviteSetup

NextCapacity ==
    \/ \E p \in Procs, sessionUser \in UserIds \cup {NULL}, token \in TokenInputs :
         JoinStart(p, sessionUser, token)
    \/ \E p \in Procs : JoinFindUser(p)
    \/ \E p \in Procs, email \in FormEmails, token \in TokenInputs :
         AutoStart(p, email, token)
    \/ \E p \in Procs : AutoFindUser(p)
    \/ \E p \in Procs : Increment(p)
    \/ \E p \in Procs : JoinAttach(p)
    \/ \E p \in Procs : AutoAttach(p)
    \/ \E p \in Procs : CreateSession(p)
    \/ \E p \in Procs, sessionUser \in InviteCallers, email \in InviteEmails :
         InviteStart(p, sessionUser, email)
    \/ \E p \in Procs : InviteUpsert(p)

SpecCapacity == InitCapacity /\ [][NextCapacity]_vars

-----------------------------------------------------------------------------
(* Organization setup: createOrganization, checkout, checkout-success *)

\* organization ids in the order the database hands them out
OrgIdSeq == <<"o1", "o2">>

\* the id of the next organization row, NULL when the ids are used up
NewOrgId(o) ==
    IF \A i \in DOMAIN OrgIdSeq : OrgIdSeq[i] \in DOMAIN o
    THEN NULL
    ELSE OrgIdSeq[CHOOSE i \in DOMAIN OrgIdSeq :
                    /\ OrgIdSeq[i] \notin DOMAIN o
                    /\ \A j \in 1..(i - 1) : OrgIdSeq[j] \in DOMAIN o]

\* the name field of the setup form: a name and a blank one
OrgNames == {"Acme", " "}

\* orgName.trim()
trimName(orgName) == IF orgName = " " THEN "" ELSE orgName

\* the valid addresses the setup form collected
TeamEmailLists == {<<>>, <<"p@x">>, <<"p@x", "q@x", "r@x">>}

Range(seq) == { seq[i] : i \in DOMAIN seq }

\* JSON.stringify of a list of addresses, and JSON.parse of such a string
JSONstringify(list) ==
    CASE list = <<>> -> "[]"
      [] list = <<"p@x">> -> "[p@x]"
      [] list = <<"p@x", "q@x", "r@x">> -> "[p@x,q@x,r@x]"

JSONparse(string) == CHOOSE list \in TeamEmailLists : JSONstringify(list) = string

\* one db.organizationInvite.create per address, each in its own try/catch: a
\* create that hits the unique index on (email, organizationId) is only logged
createInvites(inv, emails, organizationId) ==
    inv \cup { OrganizationInvite(cleanEmailOf(e), organizationId, "PENDING") :
                 e \in { x \in emails :
                           ~\E i \in inv : /\ i.email = cleanEmailOf(x)
                                           /\ i.organizationId = organizationId } }

\* createOrganization(orgName, teamEmails, skipMemberLimit) by the session
\* user.  The three throws at its start leave the database as it is.
CreateOrganization(caller, orgName, teamEmails, skipMemberLimit) ==
    /\ caller # NULL
    /\ trimName(orgName) # ""
    /\ skipMemberLimit \/ Len(teamEmails) <= 2
    /\ NewOrgId(orgs) # NULL
    /\ LET id == NewOrgId(orgs) IN
       /\ orgs' = orgs @@ (id :> FreshOrganization(trimName(orgName)))
       /\ users' = [users EXCEPT ![caller].organizationId = id]
       /\ admins' = admins \cup {caller}
       /\ invites' = (IF Len(teamEmails) > 0 /\ ~skipMemberLimit
                      THEN createInvites(invites, Range(teamEmails), id)
                      ELSE invites)
       /\ setups' = setups @@ (id :> Setup(caller, teamEmails, skipMemberLimit))
    /\ UNCHANGED <<delivered, applied, request, response>>
    /\ UNCHANGED <<tokens, sessions, now, lock, procs>>
    /\ UNCHANGED <<plans, checkouts, reply, success>>

\* the body the setup form posts to /api/stripe/checkout
SetupBody(planId, teamEmails) ==
    CheckoutBody(planId, NULL) @@ [teamEmails |-> teamEmails]

SetupBodies ==
    { SetupBody("team", t) : t \in {NULL} \cup { JSONstringify(l) : l \in TeamEmailLists } }

\* session.metadata?.teamEmails
metadataTeamEmails(session) ==
    IF "teamEmails" \in DOMAIN session.metadata THEN session.metadata.teamEmails ELSE NULL

PaymentStatuses == {"paid", "unpaid", "no_payment_required"}

\* the session_id parameter: absent or present
SessionIds == {NULL, "cs_1"}

\* what stripe.checkout.sessions.retrieve returns: a session of the provider;
\* for an id the provider does not know it throws (NoSession)
Retrievable == checkouts \cup {NoSession}

\* GET /api/stripe/checkout-success: the redirect and the invites table it leaves
successHandler(caller, sessionId, session, payment_status) ==
    LET Redirected(to) == [redirect |-> to, invites |-> invites] IN
    IF sessionId = NULL
    THEN Redirected("/dashboard")
    ELSE IF caller = NULL
    THEN Redirected("/auth/signin")
    ELSE IF session = NoSession
    THEN Redirected("/dashboard?subscription=error")
    ELSE IF session.metadata.userId # caller
    THEN Redirected("/dashboard?subscription=error")
    ELSE IF payment_status = "paid"
    THEN LET teamEmails == metadataTeamEmails(session)
             organizationId == users[caller].organizationId
         IN  [redirect |-> "/dashboard?subscription=success",
              invites |-> IF /\ teamEmails # NULL /\ teamEmails # ""
                             /\ Len(JSONparse(teamEmails)) > 0
                             /\ organizationId # NULL
                          THEN createInvites(invites, Range(JSONparse(teamEmails)), organizationId)
                          ELSE invites]
    ELSE IF payment_status = "unpaid"
    THEN Redirected("/dashboard?subscription=unpaid")
    ELSE Redirected("/dashboard?subscription=pending")

\* the request is recorded with what it read: no session without session_id
\* or login, no payment_status without session
CheckoutSuccess(caller, sessionId, session, payment_status) ==
    /\ invites' = successHandler(caller, sessionId, session, payment_status).invites
    /\ LET read == IF sessionId = NULL \/ caller = NULL THEN NoSession ELSE session IN
       success' = Success(caller, read,
                          IF read = NoSession THEN NULL ELSE payment_status,
                          successHandler(caller, sessionId, session, payment_status).redirect)
    /\ UNCHANGED <<orgs, delivered, applied, request, response>>
    /\ UNCHANGED <<tokens, users, sessions, now, lock, procs>>
    /\ UNCHANGED <<admins, plans, checkouts, reply, setups>>

\* m has created organization o1 (free tier) and is its admin; a has signed
\* in and belongs to no organization
InitSetup ==
    /\ orgs = ("o1" :> FreshOrganization("Acme"))
    /\ delivered = {}
    /\ applied = {}
    /\ request = NoRequest
    /\ response = NoResponse
    /\ users = ("a" :> User("a@x", NULL, TRUE) @@ "m" :> User("m@x", "o1", TRUE))
    /\ admins = {"m"}
    /\ plans = ("team" :> Plan("price_a"))
    /\ checkouts = {}
    /\ reply = NoReply
    /\ setups = <<>>
    /\ success = NoSuccess
    /\ tokens = <<>>
    /\ invites = {}
    /\ sessions = {}
    /\ now = 0
    /\ lock = <<>>
    /\ procs = <<>>

SetupCallers == {"a", "m", NULL}

NextSetup ==
    \/ \E caller \in SetupCallers, orgName \in OrgNames,
          teamEmails \in TeamEmailLists, skipMemberLimit \in BOOLEAN :
         CreateOrganization(caller, orgName, teamEmails, skipMemberLimit)
    \/ \E caller \in SetupCallers, body \in SetupBodies, created \in BOOLEAN :
         CheckoutPOST(caller, body, created)
    \/ \E caller \in SetupCallers, sessionId \in SessionIds, session \in Retrievable,
          payment_status \in PaymentStatuses :
         CheckoutSuccess(caller, sessionId, session, payment_status)

SpecSetup == InitSetup /\ [][NextSetup]_vars

-----------------------------------------------------------------------------
(* Billing lifecycle of one organization: authentic events about o1 *)

\* the events of the provider that name organization o1 (for the invoice
\* kinds: that name its subscription)
LifecycleEvents ==
    { e \in Events :
        CASE e.type = "checkout.session.completed" ->
                e.metadata.organizationId = "o1" /\ e.metadata.userId = "a"
          [] e.type \in {"customer.subscription.created", "customer.subscription.updated",
                         "customer.subscription.deleted"} ->
                e.subscription.metadata.organizationId = "o1"
          [] e.type \in {"invoice.payment_succeeded", "invoice.payment_failed"} ->
                e.invoice.lineSubscription = "sub1"
          [] OTHER -> FALSE }

\* the provider sends a new event about o1 or redelivers one
LifecycleWebhook ==
    \E event \in (IF Cardinality(delivered) < MaxEvents
                   THEN LifecycleEvents ELSE delivered \cap LifecycleEvents) :
      \E retrieved \in (IF CallsRetrieve(event, "empty")
                        THEN RetrieveOutcomes ELSE {NoRetrieve}) :
        POST("valid", event, "empty", retrieved)

\* createOrganization has just run for user m: o1 is on the free tier, m is
\* its only member and its admin; user a has no organization
InitLifecycle ==
    /\ orgs = ("o1" :> FreshOrganization("Acme"))
    /\ delivered = {}
    /\ applied = {}
    /\ request = NoRequest
    /\ response = NoResponse
    /\ users = ("a" :> User("a@x", NULL, FALSE) @@ "m" :> User("m@x", "o1", TRUE))
    /\ admins = {"m"}
    /\ plans = ("team" :> Plan("price_a"))
    /\ checkouts = {}
    /\ reply = NoReply
    /\ setups = <<>>
    /\ success = NoSuccess
    /\ tokens = <<>>
    /\ invites = {}
    /\ sessions = {}
    /\ now = 0
    /\ lock = <<>>
    /\ procs = <<>>

NextLifecycle == LifecycleWebhook

SpecLifecycle == InitLifecycle /\ [][NextLifecycle]_vars

\* the admin of o1 asks for a checkout session of the team plan while the
\* provider's events about o1 arrive
ResubscribeCheckout ==
    \E created \in BOOLEAN : CheckoutPOST("m", CheckoutBody("team", NULL), created)

NextResubscribe == LifecycleWebhook \/ ResubscribeCheckout

SpecResubscribe == InitLifecycle /\ [][NextResubscribe]_vars

-----------------------------------------------------------------------------
(* Billing event reconciliation: properties *)

ValidRequest(r) == r.signature = "valid"

SubscriptionKinds ==
    {"customer.subscription.created", "customer.subscription.updated",
     "customer.subscription.deleted"}

InvoiceKinds == {"invoice.payment_succeeded", "invoice.payment_failed"}

\* the organization an event's request is about to update, NULL if none
TargetOf(r) == updateTarget(r.event, r.listed, r.retrieved)

\* C1: a validly signed event is applied to the Organization row exactly once:
\* redelivering an event id whose update was already executed is acknowledged
\* and leaves the organizations table as it is.
C1_RedeliveryIsNoOp ==
    [][(ValidRequest(request') /\ request'.event \in applied)
         => (response'.received /\ orgs' = orgs)]_vars

\* C5: a request whose signature header is missing or does not verify is
\* answered with status 400 and an error payload, and no Organization row changes.
C5_BadSignatureRejected ==
    [][request'.signature \in {"none", "bad"}
         => (/\ response'.status = 400
             /\ ~response'.received
             /\ response'.error # NULL
             /\ orgs' = orgs)]_vars

\* C5 witness: a request with a non-verifying signature was rejected although
\* the organization exists and the provider has delivered events
C5_Witness ==
    /\ request.signature = "bad"
    /\ response.status = 400
    /\ "o1" \in DOMAIN orgs
    /\ delivered # {}

\* the field the handler validates is absent from the metadata the event kind carries
C6_LacksRequired(r) ==
    \/ /\ r.event.type = "checkout.session.completed"
       /\ \/ r.event.metadata.organizationId = NULL
          \/ r.event.metadata.userId = NULL
          \/ r.event.metadata.planId = NULL
    \/ /\ r.event.type \in SubscriptionKinds
       /\ r.event.subscription.metadata.organizationId = NULL
    \/ /\ r.event.type \in InvoiceKinds
       /\ r.retrieved.ok
       /\ r.retrieved.subscription.metadata.organizationId = NULL

C7_LacksClaimed(r) ==
    \/ /\ r.event.type = "checkout.session.completed"
       /\ r.event.metadata.organizationId = NULL
    \/ /\ r.event.type \in SubscriptionKinds
       /\ r.event.subscription.metadata.organizationId = NULL
    \/ /\ r.event.type = "customer.subscription.updated"
       /\ r.event.subscription.metadata.planId = NULL
    \/ /\ r.event.type \in InvoiceKinds
       /\ r.retrieved.ok
       /\ r.retrieved.subscription.metadata.organizationId = NULL

\* C7 as stated: an event of a handled kind lacking organizationId (any kind) or
\* planId (payment-succeeded, subscription-updated) is rejected with a validation
\* error and never acknowledged with {received: true}.
C7_MissingMetadataRejected ==
    [][(ValidRequest(request') /\ C7_LacksClaimed(request'))
         => (response'.status = 400 /\ ~response'.received)]_vars

\* the fields the schemas of the handler require
C7_LacksSchema(r) ==
    \/ /\ r.event.type = "checkout.session.completed"
       /\ \/ r.event.metadata.organizationId = NULL
          \/ r.event.metadata.userId = NULL
          \/ r.event.metadata.planId = NULL
    \/ /\ r.event.type \in SubscriptionKinds
       /\ r.event.subscription.metadata.organizationId = NULL

\* C7 amended: a checkout-completed event lacking organizationId, userId or
\* planId, and a subscription created/updated/deleted event lacking
\* organizationId, is answered 400 with an error and never acknowledged; a
\* subscription created/updated event lacking only planId is applied with the
\* stored planId kept, and an invoice event whose subscription carries no
\* organizationId is acknowledged without any change.
C7_SchemaViolationRejected ==
    [][ValidRequest(request') =>
         /\ C7_LacksSchema(request')
              => (response'.status = 400 /\ ~response'.received /\ response'.error # NULL)
         /\ ( /\ request'.event.type \in {"customer.subscription.created",
                                           "customer.subscription.updated"}
              /\ request'.event.subscription.metadata.planId = NULL
              /\ TargetOf(request') \in DOMAIN orgs )
              => ( /\ response'.received
                   /\ orgs'[TargetOf(request')].planId = orgs[TargetOf(request')].planId )
         /\ ( /\ request'.event.type \in InvoiceKinds
              /\ request'.retrieved.ok
              /\ request'.retrieved.subscription.metadata.organizationId = NULL )
              => (response'.received /\ orgs' = orgs)]_vars

\* C7 witness: a subscription-updated event without organizationId was answered 400
C7_Witness ==
    /\ ValidRequest(request)
    /\ request.event.type = "customer.subscription.updated"
    /\ request.event.subscription.metadata.organizationId = NULL
    /\ request.event.subscription.hasItem
    /\ response.status = 400
    /\ "o1" \in DOMAIN orgs

C8_FiveKinds ==
    {"customer.subscription.created", "customer.subscription.updated",
     "customer.subscription.deleted", "invoice.payment_succeeded", "invoice.payment_failed"}

\* C8 as stated: an authentic event of a kind other than subscription
\* created/updated/deleted and invoice payment succeeded/failed is acknowledged
\* with {received: true} and modifies no Organization row.
C8_OnlyFiveKindsProceed ==
    [][(ValidRequest(request') /\ request'.event.type \notin C8_FiveKinds)
         => (response'.received /\ orgs' = orgs)]_vars

C8_SixKinds == C8_FiveKinds \cup {"checkout.session.completed"}

\* C8 amended: the allow-list has six kinds, the five named and
\* checkout.session.completed; an authentic event of any other kind is answered
\* {received: true} with status 200 and modifies no Organization row.
C8_OtherKindsAcknowledged ==
    [][(ValidRequest(request') /\ request'.event.type \notin C8_SixKinds)
         => (/\ response'.status = 200
             /\ response'.received
             /\ response'.error = NULL
             /\ orgs' = orgs)]_vars

\* C8 witness: an event outside the allow-list was acknowledged for a paying organization
C8_Witness ==
    /\ ValidRequest(request)
    /\ request.event.type = "charge.succeeded"
    /\ response.received
    /\ "o1" \in DOMAIN orgs
    /\ orgs["o1"].planId # NULL

\* C9: when the Organization update of an event throws (here: no row has the
\* id), the handler answers with status 500.
C9_ApplyFailureIsServerError ==
    [][( /\ ValidRequest(request')
         /\ TargetOf(request') # NULL
         /\ TargetOf(request') \notin DOMAIN orgs )
         => response'.status = 500]_vars

\* C10: a payment-succeeded event for an organization id without a stored row
\* leaves the billing fields stored under that id, whereas a subscription
\* created/updated/deleted event for such an id fails and stores nothing.
C10_PaymentSucceededUpserts ==
    [][( /\ ValidRequest(request')
         /\ TargetOf(request') # NULL
         /\ TargetOf(request') \notin DOMAIN orgs )
         => /\ request'.event.type = "invoice.payment_succeeded"
                => /\ TargetOf(request') \in DOMAIN orgs'
                   /\ orgs'[TargetOf(request')].subscriptionStatus = "ACTIVE"
            /\ request'.event.type \in SubscriptionKinds
                => (response'.status = 500 /\ orgs' = orgs)]_vars

-----------------------------------------------------------------------------
(* Invite redemption: properties *)

\* the transaction of the invocation has ended (committed or rolled back)
Finished(p) == procs[p].pc \in {"session", "done"}

\* the invocation executed the increment of usageCount
Reserved(p) == procs[p].count # NullInt

\* the invocation committed a reservation and attached its user
Redeemed(p) == Finished(p) /\ Reserved(p) /\ procs[p].error = NULL

RedeemedWith(token) == { p \in Procs : Redeemed(p) /\ procs[p].token = token }

\* C2: for a token with usageLimit = N, whatever the interleaving of
\* joinOrganization and autoCreateAccountAndJoin invocations, at most N of
\* them commit a redemption, and the organization gains at most N members.
C2_AtMostLimitRedemptions ==
    \A t \in DOMAIN tokens :
        tokens[t].usageLimit # NullInt =>
            /\ Cardinality(RedeemedWith(t)) <= tokens[t].usageLimit
            /\ Cardinality(members(users, tokens[t].organizationId) \ {"m"})
                 <= tokens[t].usageLimit

\* C2 witness: with usageLimit = 1 the anonymous path created a member and a
\* joinOrganization that had passed the pre-check was turned away
C2_Witness ==
    /\ tokens["t1"].usageLimit = 1
    /\ "new@x" \in members(users, "o1")
    /\ \E p \in Procs :
         /\ procs[p].action = "joinOrganization"
         /\ procs[p].pc = "done"
         /\ procs[p].error = ErrLimit
         /\ Reserved(p)

\* C3: in every committed state a self-serve invite whose usageLimit is set
\* has usageCount <= usageLimit.
C3_CountWithinLimit ==
    \A t \in DOMAIN tokens :
        tokens[t].usageLimit # NullInt => tokens[t].usageCount <= tokens[t].usageLimit

\* C3 witness: a transaction saw usageCount = usageLimit + 1 after its own
\* increment and rolled back; the committed count is at the limit
C3_Witness ==
    /\ tokens["t1"].usageLimit = 2
    /\ tokens["t1"].usageCount = 2
    /\ \E p \in Procs : procs[p].pc = "done" /\ procs[p].count = 3 /\ procs[p].error = ErrLimit

\* C4: when two redemptions of a token both pass the pre-check with
\* usageCount = usageLimit - 1 and both reach the increment, and no third
\* redemption takes that last slot or a later one, exactly one of the two
\* commits and the other is rejected with the usage-limit error.
C4_ExactlyOneWinsLastSlot ==
    \A p, q \in Procs :
        ( /\ p # q
          /\ Finished(p) /\ Finished(q)
          /\ procs[p].token = procs[q].token
          /\ procs[p].token \in DOMAIN tokens
          /\ tokens[procs[p].token].usageLimit # NullInt
          /\ Reserved(p) /\ Reserved(q)
          /\ procs[p].seen = tokens[procs[p].token].usageLimit - 1
          /\ procs[q].seen = tokens[procs[p].token].usageLimit - 1
          /\ \A r \in Procs \ {p, q} :
                Reserved(r) => procs[r].count < tokens[procs[p].token].usageLimit )
        => \/ procs[p].error = NULL /\ procs[q].error = ErrLimit
           \/ procs[q].error = NULL /\ procs[p].error = ErrLimit

\* C4 witness: user a (authenticated) and a new address (anonymous) both read
\* usageCount = 0 of a token with usageLimit = 1; one joined, one was rejected
C4_Witness ==
    \E p, q \in Procs :
        /\ procs[p].action = "joinOrganization"
        /\ procs[q].action = "autoCreateAccountAndJoin"
        /\ procs[p].pc = "done" /\ procs[q].pc = "done"
        /\ tokens["t1"].usageLimit = 1
        /\ procs[p].seen = 0 /\ procs[q].seen = 0
        /\ procs[p].error = NULL /\ procs[p].count = 1
        /\ procs[q].error = ErrLimit /\ procs[q].count = 2

-----------------------------------------------------------------------------
(* Billing event reconciliation: status mapping and failure responses *)

\* the provider status the handler passes to mapStripeStatus for a request,
\* NULL when it passes none
StatusRead(r) ==
    CASE r.event.type \in {"customer.subscription.created", "customer.subscription.updated"} ->
            r.event.subscription.status
      [] r.event.type = "checkout.session.completed" /\ r.retrieved.ok ->
            r.retrieved.subscription.status
      [] OTHER -> NULL

\* the internal status named like a known provider status
SameName ==
    [st \in KnownStatuses |->
        CASE st = "active" -> "ACTIVE"
          [] st = "canceled" -> "CANCELED"
          [] st = "incomplete" -> "INCOMPLETE"
          [] st = "incomplete_expired" -> "INCOMPLETE_EXPIRED"
          [] st = "past_due" -> "PAST_DUE"
          [] st = "trialing" -> "TRIALING"
          [] st = "unpaid" -> "UNPAID"]

\* C11: mapStripeStatus is total.  Whatever provider status an applied
\* subscription or checkout event carries, the request is answered 200, and the
\* stored subscriptionStatus is a member of the SubscriptionStatus enum: the
\* status of the same name for the seven known statuses, INACTIVE for any other.
C11_StatusMappingTotal ==
    [][( /\ ValidRequest(request')
         /\ StatusRead(request') # NULL
         /\ TargetOf(request') \in DOMAIN orgs )
         => LET st == StatusRead(request')
                stored == orgs'[TargetOf(request')].subscriptionStatus
            IN  /\ response'.status = 200
                /\ response'.received
                /\ stored \in SubscriptionStatusEnum
                /\ st \in KnownStatuses => stored = SameName[st]
                /\ st \notin KnownStatuses => stored = "INACTIVE"]_vars

\* C11 witness: a trialing subscription was applied earlier, and the latest
\* event, carrying a status the switch does not list, left INACTIVE stored
C11_Witness ==
    /\ ValidRequest(request)
    /\ request.event.type = "customer.subscription.updated"
    /\ request.event.subscription.status = "some_future_status"
    /\ \E e \in applied : e.subscription.status = "trialing"
    /\ "o1" \in DOMAIN orgs
    /\ orgs["o1"].stripeSubscriptionId = "sub1"
    /\ orgs["o1"].subscriptionStatus = "INACTIVE"

\* a subscription-deleted event whose metadata carries no organizationId
DeletedWithoutOrg(r) ==
    /\ r.event.type = "customer.subscription.deleted"
    /\ r.event.subscription.metadata.organizationId = NULL

\* C12 as stated: a subscription-deleted event whose metadata carries no
\* organizationId is answered with a 5xx status and an error payload, and no
\* Organization row is modified.
C12_DeleteWithoutOrgIsServerError ==
    [][(ValidRequest(request') /\ DeletedWithoutOrg(request'))
         => (/\ response'.status >= 500
             /\ response'.error # NULL
             /\ orgs' = orgs)]_vars

\* C12 amended: a subscription-deleted event whose metadata carries no
\* organizationId is answered with status 400 and the error "Missing
\* organizationId", is not acknowledged, and no Organization row is modified.
C12_DeleteWithoutOrgIsBadRequest ==
    [][(ValidRequest(request') /\ DeletedWithoutOrg(request'))
         => (/\ response'.status = 400
             /\ response'.error = "Missing organizationId"
             /\ ~response'.received
             /\ orgs' = orgs)]_vars

\* C12 witness: the deletion without organizationId was rejected while the
\* organization still holds the subscription an earlier event stored
C12_Witness ==
    /\ ValidRequest(request)
    /\ DeletedWithoutOrg(request)
    /\ response.status = 400
    /\ "o1" \in DOMAIN orgs
    /\ orgs["o1"].stripeSubscriptionId = "sub1"

\* an outbound call the handler made for the request failed
ProviderCallFailed(r) ==
    \/ CallsList(r.event) /\ r.listed = "throws"
    \/ CallsRetrieve(r.event, r.listed) /\ ~r.retrieved.ok

\* C13: when stripe.subscriptions.retrieve or stripe.subscriptions.list fails
\* while an event of a handled kind is reconciled, the handler answers with a
\* 5xx status and does not acknowledge the event.
C13_ProviderFailureIsServerError ==
    [][(ValidRequest(request') /\ ProviderCallFailed(request'))
         => (response'.status >= 500 /\ ~response'.received)]_vars

-----------------------------------------------------------------------------
(* Invite redemption: rejections, capacity and atomicity *)

Redemptions == {"joinOrganization", "autoCreateAccountAndJoin"}

\* this step is the first step of a redemption by p
Started(p) ==
    /\ procs[p].pc = "idle"
    /\ procs'[p].pc # "idle"
    /\ procs'[p].action \in Redemptions

\* the request carried a session (joinOrganization) or a well-formed email
\* (autoCreateAccountAndJoin): nothing else raises these two errors
WellFormed(proc) == proc.error \notin {ErrNotAuthenticated, ErrEmail}

\* this step is the user lookup of the redemption by p
FindsUser(p) ==
    /\ procs[p].pc = "findUser"
    /\ procs'[p].pc # "findUser"

\* the stored users a redemption acts for: the session user, or the user
\* holding the submitted email
ResolvedUsers(proc) ==
    IF proc.action = "joinOrganization"
    THEN {proc.actor} \cap DOMAIN users
    ELSE userByEmail(users, proc.actor)

Expired(invite, time) == invite.expiresAt # NullInt /\ invite.expiresAt < time

Exhausted(invite) == invite.usageLimit # NullInt /\ invite.usageCount >= invite.usageLimit

\* C14: a redemption for a user who already belongs to the token's
\* organization reports success and changes neither users nor usageCount, on
\* the authenticated and on the anonymous path.
C14_SameOrgRedemptionIsNoOp ==
    [][\A p \in Procs :
         ( /\ FindsUser(p)
           /\ \E u \in ResolvedUsers(procs[p]) :
                users[u].organizationId = tokens[procs[p].token].organizationId )
         => ( /\ procs'[p].error = NULL
              /\ users' = users
              /\ tokens' = tokens )]_vars

\* C15: a redemption of a stored, active token whose expiresAt is in the past
\* fails with the expiry error on both paths, whatever usageCount and
\* usageLimit are, and changes neither usageCount nor any user.
C15_ExpiredTokenRejected ==
    [][\A p \in Procs :
         ( /\ Started(p)
           /\ WellFormed(procs'[p])
           /\ procs'[p].token \in DOMAIN tokens
           /\ tokens[procs'[p].token].isActive
           /\ Expired(tokens[procs'[p].token], now) )
         => ( /\ procs'[p].pc = "done"
              /\ procs'[p].error = ErrExpired
              /\ procs'[p].count = NullInt
              /\ tokens' = tokens
              /\ users' = users )]_vars

\* C15 witness: the token is used up as well as expired, and the anonymous
\* redemption that came after the expiry failed with the expiry error
C15_Witness ==
    /\ tokens["t1"].isActive
    /\ tokens["t1"].usageCount = tokens["t1"].usageLimit
    /\ Expired(tokens["t1"], now)
    /\ \E p \in Procs :
         /\ procs[p].action = "autoCreateAccountAndJoin"
         /\ procs[p].pc = "done"
         /\ procs[p].error = ErrExpired

\* members + pending invites + 1 exceeds the free-tier cap
OverCap(organizationId) ==
    Cardinality(members(users, organizationId))
      + Cardinality(pendingInvites(invites, organizationId)) + 1 > FREE_PLAN_MEMBER_LIMIT

Redeemable(invite, time) == invite.isActive /\ ~Expired(invite, time) /\ ~Exhausted(invite)

\* this step is the first step of an invite request by p
InviteStarted(p) ==
    /\ procs[p].pc = "idle"
    /\ procs'[p].action = "invitePOST"

\* C16: for an organization without plan, a redemption of a redeemable token
\* and a per-email invite by an admin are rejected with the capacity error
\* whenever members + pending invites + 1 exceeds FREE_PLAN_MEMBER_LIMIT, and
\* leave invites, users and usageCount unchanged; below the cap, and for an
\* organization with a plan whatever its size, the request passes the
\* capacity check, and no request against an organization with a plan ends
\* with the capacity error.
C16_FreeTierCapacity ==
    [][\A p \in Procs :
         /\ ( /\ Started(p)
              /\ WellFormed(procs'[p])
              /\ procs'[p].token \in DOMAIN tokens
              /\ Redeemable(tokens[procs'[p].token], now) )
            => LET organizationId == tokens[procs'[p].token].organizationId IN
               IF orgs[organizationId].planId = NULL /\ OverCap(organizationId)
               THEN /\ procs'[p].pc = "done"
                    /\ procs'[p].error = ErrCapacity
                    /\ procs'[p].count = NullInt
                    /\ UNCHANGED <<tokens, users, invites>>
               ELSE /\ procs'[p].pc = "findUser"
                    /\ procs'[p].error = NULL
         /\ ( /\ InviteStarted(p)
              /\ procs'[p].actor \in admins
              /\ users[procs'[p].actor].organizationId # NULL
              /\ emailSchema(procs'[p].email) )
            => LET organizationId == users[procs'[p].actor].organizationId IN
               IF orgs[organizationId].planId = NULL /\ OverCap(organizationId)
               THEN /\ procs'[p].pc = "done"
                    /\ procs'[p].status = 400
                    /\ procs'[p].error = ErrCapacity
                    /\ UNCHANGED <<tokens, users, invites>>
               ELSE /\ procs'[p].pc = "upsert"
                    /\ procs'[p].error = NULL
         /\ (procs[p].error # ErrCapacity /\ procs'[p].error = ErrCapacity)
            => \E organizationId \in DOMAIN orgs :
                 /\ orgs[organizationId].planId = NULL
                 /\ OverCap(organizationId)]_vars

\* C16 witness: the free organization reached the cap through an invite that
\* was created, and the redemption that came next was rejected for capacity
C16_Witness ==
    /\ orgs["o1"].planId = NULL
    /\ Cardinality(members(users, "o1")) + Cardinality(pendingInvites(invites, "o1"))
         = FREE_PLAN_MEMBER_LIMIT
    /\ \E p, q \in Procs :
         /\ procs[p].action = "invitePOST" /\ procs[p].status = 201
         /\ procs[q].action \in Redemptions
         /\ procs[q].pc = "done"
         /\ procs[q].error = ErrCapacity

\* C17: a redemption by (joinOrganization) or for (autoCreateAccountAndJoin) a
\* user who belongs to another organization ends with the other-organization
\* error without incrementing usageCount, and no step ever changes the
\* organizationId of a user who has one.
C17_OtherOrganizationRejected ==
    [][/\ \A p \in Procs :
            ( /\ FindsUser(p)
              /\ \E u \in ResolvedUsers(procs[p]) :
                   users[u].organizationId
                      \notin {NULL, tokens[procs[p].token].organizationId} )
            => ( /\ procs'[p].pc = "done"
                 /\ procs'[p].error = ErrOtherOrg
                 /\ procs'[p].count = NullInt
                 /\ users' = users
                 /\ tokens' = tokens )
       /\ \A u \in DOMAIN users :
            users[u].organizationId # NULL
              => users'[u].organizationId = users[u].organizationId]_vars

\* C17 witness: user x of organization o2 was turned away on both paths
C17_Witness ==
    /\ users["x"].organizationId = "o2"
    /\ \E p, q \in Procs :
         /\ procs[p].action = "joinOrganization"
         /\ procs[q].action = "autoCreateAccountAndJoin"
         /\ procs[p].error = ErrOtherOrg /\ procs[p].user = "x"
         /\ procs[q].error = ErrOtherOrg /\ procs[q].user = "x"

\* C18: usageCount and the users table change only together, in the commit of
\* a transaction that holds the row lock and whose incremented count passed
\* the re-check: the committed count is the old one plus one and the only
\* user row written is the one of that transaction's user, who is then a
\* member of the token's organization.  A redemption that ends with an
\* error, the failed re-check and the failed user creation included, leaves
\* usageCount and users as they were.
C18_ReservationAndAttachAtomic ==
    [][/\ (users' # users \/ tokens' # tokens)
            => \E p \in Procs :
                 LET t == procs[p].token
                     organizationId == tokens[t].organizationId
                 IN  /\ procs[p].pc = "attach"
                     /\ procs'[p].pc \in {"session", "done"}
                     /\ procs'[p].error = NULL
                     /\ lock[t] = p
                     /\ ~overLimit(tokens[t].usageLimit, procs[p].count)
                     /\ procs[p].count = tokens[t].usageCount + 1
                     /\ tokens' = [tokens EXCEPT ![t].usageCount = procs[p].count]
                     /\ procs'[p].user \in members(users', organizationId)
                     /\ \A v \in DOMAIN users \ {procs'[p].user} : users'[v] = users[v]
       /\ \A p \in Procs :
            (procs[p].pc # "done" /\ procs'[p].pc = "done" /\ procs'[p].error # NULL)
              => (users' = users /\ tokens' = tokens)]_vars

\* C18 witness: a transaction reserved a slot and then failed to create its
\* user; the committed count does not include its increment
C18_Witness ==
    /\ "new@x" \in DOMAIN users
    /\ \E p \in Procs :
         /\ procs[p].pc = "done"
         /\ procs[p].error = ErrUnique
         /\ procs[p].count = tokens["t1"].usageCount + 1

\* the rejection reasons of the terminal states an invite is in
TerminalReasons(invite, time) ==
    (IF ~invite.isActive THEN {ErrDeactivated, ErrInvalidOrInactive} ELSE {})
    \cup (IF Expired(invite, time) THEN {ErrExpired} ELSE {})
    \cup (IF Exhausted(invite) THEN {ErrLimit} ELSE {})

\* C19: a redemption started on a token that is exhausted, expired or
\* deactivated is rejected before any increment with the reason of a terminal
\* state the token is in, and the join page shows an error card for it; no
\* step decreases usageCount, reactivates a token or moves expiresAt later,
\* so a token in a terminal state stays in one.
C19_TerminalStatesReject ==
    [][/\ \A p \in Procs :
            ( /\ Started(p)
              /\ WellFormed(procs'[p])
              /\ procs'[p].token \in DOMAIN tokens
              /\ TerminalReasons(tokens[procs'[p].token], now) # {} )
            => ( /\ procs'[p].pc = "done"
                 /\ procs'[p].error \in TerminalReasons(tokens[procs'[p].token], now)
                 /\ procs'[p].count = NullInt )
       /\ \A t \in DOMAIN tokens :
            /\ t \in DOMAIN tokens'
            /\ tokens'[t].usageCount >= tokens[t].usageCount
            /\ tokens'[t].isActive => tokens[t].isActive
            /\ tokens[t].expiresAt # NullInt
                 => (tokens'[t].expiresAt # NullInt /\ tokens'[t].expiresAt <= tokens[t].expiresAt)
            /\ TerminalReasons(tokens[t], now) # {}
                 => ( /\ TerminalReasons(tokens'[t], now') # {}
                      /\ JoinPageCard(t, tokens, now) # "form" )]_vars

\* C19 witness: the only slot of the token was taken, and a redemption that
\* started afterwards was rejected by the check before the increment
C19_Witness ==
    /\ tokens["t1"].usageLimit = 1
    /\ tokens["t1"].usageCount = 1
    /\ \E p, q \in Procs :
         /\ Redeemed(p)
         /\ procs[q].pc = "done"
         /\ procs[q].error = ErrLimit
         /\ procs[q].count = NullInt

-----------------------------------------------------------------------------
(* Checkout: properties *)

\* C20: every checkout session handed to the provider carries the
\* stripePriceId of the stored plans row of the request's planId, whatever
\* else the body holds; a planId without plans row, or with a row whose price
\* reference is empty, is answered with an error and creates no session.
C20_PriceFromStoredPlan ==
    [][LET r == reply' IN
       /\ checkouts' \ checkouts \subseteq {r.session}
       /\ r.session # NoSession
            => ( /\ r.body.planId \in DOMAIN plans
                 /\ r.session.price = plans[r.body.planId].stripePriceId
                 /\ r.session.price \in Prices
                 /\ r.session.metadata.planId = r.body.planId
                 /\ r.session \in checkouts' )
       /\ ( \/ r.body.planId \notin DOMAIN plans
            \/ plans[r.body.planId].stripePriceId \notin Prices )
            => ( /\ r.status >= 400
                 /\ r.error # NULL
                 /\ r.session = NoSession
                 /\ checkouts' = checkouts )]_vars

\* C20 witness: the body named another price than the stored one, and the
\* session was created with the stored one
C20_Witness ==
    /\ reply.status = 200
    /\ reply.body.planId = "team"
    /\ reply.body.price # NULL
    /\ reply.body.price # plans["team"].stripePriceId
    /\ reply.session \in checkouts
    /\ reply.session.price = plans["team"].stripePriceId

-----------------------------------------------------------------------------
(* Invite redemption: login sessions of the anonymous path *)

\* this step ends the invocation of p with an error (thrown or caught)
Fails(p) == procs[p].pc # "done" /\ procs'[p].pc = "done" /\ procs'[p].error # NULL

\* C21: on the anonymous path a session row is created only by an invocation
\* whose transaction has committed (its row lock is released, and the user it
\* returned is a member of the token's organization), and it is a session of
\* that user; an invocation that ends with an error (unknown, inactive,
\* expired or exhausted token, capacity, user of another organization, failed
\* re-check or user creation) creates no session row, neither in the step
\* that ends it nor before.
C21_SessionOnlyAfterCommit ==
    [][/\ sessions' # sessions
            => \E p \in Procs :
                 /\ procs[p].action = "autoCreateAccountAndJoin"
                 /\ procs[p].pc = "session"
                 /\ procs[p].error = NULL
                 /\ lock[procs[p].token] # p
                 /\ procs[p].user \in members(users, tokens[procs[p].token].organizationId)
                 /\ procs[p].branch \in {"create", "update"}
                      => ( /\ Reserved(p)
                           /\ procs[p].count <= tokens[procs[p].token].usageCount )
                 /\ sessions' = sessions \cup {procs[p].user}
                 /\ \A q \in Procs \ {p} : procs'[q] = procs[q]
       /\ \A p \in Procs :
            Fails(p) => ( /\ sessions' = sessions
                          /\ procs[p].pc # "session" )]_vars

\* C21 witness: the anonymous redemption for a new address committed and got
\* its session; the one for user x of another organization got none
C21_Witness ==
    \E p, q \in Procs :
        /\ procs[p].action = "autoCreateAccountAndJoin"
        /\ procs[p].pc = "done" /\ procs[p].error = NULL
        /\ Reserved(p)
        /\ procs[p].user \in sessions
        /\ procs[q].action = "autoCreateAccountAndJoin"
        /\ procs[q].pc = "done" /\ procs[q].error = ErrOtherOrg
        /\ procs[q].user = "x"
        /\ "x" \notin sessions

-----------------------------------------------------------------------------
(* Billing event reconciliation: order of application and the free tier *)

\* the `data` of the db.organization.update call the handler reaches for a request
EventWrites(r) ==
    CASE r.event.type = "checkout.session.completed" ->
            [stripeCustomerId |-> r.retrieved.subscription.customer,
             stripeSubscriptionId |-> r.retrieved.subscription.id,
             stripeCurrentPeriodEnd |-> DateOfSeconds(r.retrieved.subscription.current_period_end),
             subscriptionStatus |-> mapStripeStatus(r.retrieved.subscription.status),
             planId |-> r.event.metadata.planId]
      [] r.event.type \in {"customer.subscription.created", "customer.subscription.updated"} ->
            [stripeSubscriptionId |-> r.event.subscription.id,
             stripeCurrentPeriodEnd |-> DateOfSeconds(r.event.subscription.current_period_end),
             subscriptionStatus |-> mapStripeStatus(r.event.subscription.status)]
            @@ (IF r.event.subscription.metadata.planId \notin {NULL, ""}
                THEN [planId |-> r.event.subscription.metadata.planId]
                ELSE <<>>)
      [] r.event.type = "customer.subscription.deleted" ->
            [stripeSubscriptionId |-> NULL,
             stripeCurrentPeriodEnd |-> NullInt,
             subscriptionStatus |-> "INACTIVE",
             planId |-> NULL]
      [] r.event.type = "invoice.payment_succeeded" ->
            [stripeCurrentPeriodEnd |-> DateOfSeconds(r.retrieved.subscription.current_period_end),
             subscriptionStatus |-> "ACTIVE"]
      [] r.event.type = "invoice.payment_failed" ->
            [subscriptionStatus |-> "PAST_DUE"]
      [] OTHER -> <<>>

\* the request reaches the update of a stored organization
Applies(r) == ValidRequest(r) /\ TargetOf(r) \in DOMAIN orgs

\* C22: events are applied in arrival order without any ordering guard.
\* Whatever earlier events stored, after an event's update every billing field
\* the event writes holds the event's value and every other field keeps its
\* value, also when the event carries an older snapshot (an earlier period
\* end) than the one stored.
C22_LastAppliedWins ==
    [][Applies(request')
         => LET id == TargetOf(request')
                data == EventWrites(request')
            IN  /\ response'.status = 200
                /\ request'.event \in applied'
                /\ \A f \in DOMAIN orgs[id] :
                     orgs'[id][f] = IF f \in DOMAIN data THEN data[f] ELSE orgs[id][f]]_vars

\* C22 witness: two different events were applied; the later one is a
\* subscription-updated carrying the older snapshot (active, period end 1),
\* and it replaced the status and period end of the newer one (paused, 2)
C22_Witness ==
    /\ ValidRequest(request)
    /\ request.event.type = "customer.subscription.updated"
    /\ request.event.subscription.current_period_end = 1
    /\ request.event.subscription.status = "active"
    /\ \E e \in applied \ {request.event} :
         /\ e.type \in {"customer.subscription.created", "customer.subscription.updated"}
         /\ e.subscription.current_period_end = 2
         /\ e.subscription.metadata.organizationId = "o1"
    /\ "o1" \in DOMAIN orgs
    /\ orgs["o1"].stripeCurrentPeriodEnd = DateOfSeconds(1)
    /\ orgs["o1"].subscriptionStatus = "ACTIVE"

\* C23: applying a subscription-deleted event that names a stored
\* organization returns it to the free tier: stripeSubscriptionId,
\* stripeCurrentPeriodEnd and planId become null and subscriptionStatus
\* becomes INACTIVE, while stripeCustomerId, the name and the members of the
\* organization stay as they were; the event is acknowledged.
C23_DeletionReturnsToFreeTier ==
    [][( /\ Applies(request')
         /\ request'.event.type = "customer.subscription.deleted" )
         => LET id == TargetOf(request') IN
            /\ response'.status = 200 /\ response'.received
            /\ orgs'[id].stripeSubscriptionId = NULL
            /\ orgs'[id].stripeCurrentPeriodEnd = NullInt
            /\ orgs'[id].planId = NULL
            /\ orgs'[id].subscriptionStatus = "INACTIVE"
            /\ orgs'[id].stripeCustomerId = orgs[id].stripeCustomerId
            /\ orgs'[id].name = orgs[id].name
            /\ members(users', id) = members(users, id)
            /\ users' = users]_vars

\* C23 witness: a checkout had put o1 on the team plan; after the deletion o1
\* is on the free tier and still has its provider customer and its member m
C23_Witness ==
    /\ ValidRequest(request)
    /\ request.event.type = "customer.subscription.deleted"
    /\ response.received
    /\ \E e \in applied : e.type = "checkout.session.completed" /\ e.metadata.planId = "team"
    /\ orgs["o1"].planId = NULL
    /\ orgs["o1"].stripeSubscriptionId = NULL
    /\ orgs["o1"].stripeCurrentPeriodEnd = NullInt
    /\ orgs["o1"].subscriptionStatus = "INACTIVE"
    /\ orgs["o1"].stripeCustomerId = "cus1"
    /\ members(users, "o1") = {"m"}

-----------------------------------------------------------------------------
(* Organization setup: properties *)

\* this step is a createOrganization call with skipMemberLimit (team plan)
\* that created organization id
TeamSetup(id) ==
    /\ id \notin DOMAIN setups
    /\ id \in DOMAIN setups'
    /\ setups'[id].skipMemberLimit

\* the latest checkout-success request saw payment_status = paid for a
\* session that user `by` started for organization id
PaidFor(s, by, id) ==
    /\ s.payment_status = "paid"
    /\ s.caller = by
    /\ s.session.metadata.userId = by
    /\ s.session.metadata.organizationId = id

\* the latest checkout request created session s for a body carrying the list
StartedWith(r, s, teamEmails) ==
    /\ r.status = 200
    /\ r.session = s
    /\ r.body.teamEmails = JSONstringify(teamEmails)

\* C24: a createOrganization call for the team plan creates no invitation,
\* and once checkout-success has seen payment_status = paid for the checkout
\* session the creator started for that organization, a PENDING invitation
\* exists for each of the team emails of the setup.
C24_TeamInvitesAfterPayment ==
    [][/\ \A id \in OrgIds : TeamSetup(id) => invites' = invites
       /\ \A id \in DOMAIN setups :
            ( /\ setups[id].skipMemberLimit
              /\ PaidFor(success', setups[id].by, id)
              /\ StartedWith(reply', success'.session, setups[id].teamEmails)
              /\ users[setups[id].by].organizationId = id )
            => \A e \in Range(setups[id].teamEmails) :
                 OrganizationInvite(cleanEmailOf(e), id, "PENDING") \in invites']_vars

-----------------------------------------------------------------------------
(* Checkout after the subscription ended *)

ErrActiveSubscription == "Organization already has an active subscription"

\* this step is a checkout request
CheckoutRequested ==
    /\ UNCHANGED webhookVars
    /\ reply' # reply \/ checkouts' # checkouts

\* C25: a checkout request is refused as "already subscribed" only for an
\* organization that has a subscription reference; the admin of an
\* organization on the free plan without subscription reference, also one
\* whose subscription a subscription-deleted event removed, gets a checkout
\* session for a configured plan (unless the provider call itself fails).
C25_FreeTierCanCheckout ==
    [][CheckoutRequested
         => LET r == reply'
                id == users[r.caller].organizationId
            IN  /\ r.error = ErrActiveSubscription
                     => orgs[id].stripeSubscriptionId # NULL
                /\ ( /\ r.caller \in admins
                     /\ id # NULL
                     /\ r.body.planId \in DOMAIN plans
                     /\ plans[r.body.planId].stripePriceId \in Prices
                     /\ orgs[id].planId = NULL
                     /\ orgs[id].stripeSubscriptionId = NULL )
                   => ( /\ r.status \in {200, 500}
                        /\ r.status = 200 => r.session \in checkouts' )]_vars

-----------------------------------------------------------------------------
(* Free-tier capacity under concurrency *)

\* C26: whatever the interleaving of token redemptions and per-email invite
\* creations, an organization on the free tier never has more members plus
\* pending invites than FREE_PLAN_MEMBER_LIMIT in a committed state.
C26_CapacityNeverExceeded ==
    \A id \in DOMAIN orgs :
        orgs[id].planId = NULL
          => Cardinality(members(users, id)) + Cardinality(pendingInvites(invites, id))
               <= FREE_PLAN_MEMBER_LIMIT

-----------------------------------------------------------------------------
(* Anonymous redemption: whose session is created *)

\* C27: the anonymous path creates a session row only for the user account
\* that the same request created; for the email of a user who existed before
\* (in the token's organization, or without organization) no session row is
\* created and the caller is not sent to the endpoint that sets the cookie.
C27_NoSessionForExistingUser ==
    [][\A p \in Procs :
         (procs[p].pc = "session" /\ procs'[p].pc = "done")
           => /\ procs[p].branch \in {"update", "member"}
                   => ( /\ sessions' = sessions
                        /\ procs'[p].redirect # SetSession )
              /\ \A u \in sessions' \ sessions : u = procs[p].user]_vars

-----------------------------------------------------------------------------
(* Billing lifecycle: after the deletion *)

\* a subscription-deleted event was applied to the organization
DeletionApplied(id) ==
    \E e \in applied :
        /\ e.type = "customer.subscription.deleted"
        /\ e.subscription.metadata.organizationId = id

OnFreeTier(org) == org.planId = NULL /\ org.stripeSubscriptionId = NULL

\* C28: an organization that a subscription-deleted event returned to the
\* free tier stays there (planId and stripeSubscriptionId null) under every
\* event but a checkout-completed one; a subscription created/updated event
\* of the deleted subscription that arrives late restores neither field.
C28_DeletionIsFinal ==
    [][\A id \in DOMAIN orgs :
         ( /\ DeletionApplied(id)
           /\ OnFreeTier(orgs[id])
           /\ request'.event.type # "checkout.session.completed" )
         => OnFreeTier(orgs'[id])]_vars

-----------------------------------------------------------------------------
(* Billing lifecycle: plan and subscription reference *)

\* C29: in every state reached from a freshly created organization by
\* webhook events, an organization with a planId has a stripeSubscriptionId.
C29_PlanImpliesSubscription ==
    \A id \in DOMAIN orgs :
        orgs[id].planId # NULL => orgs[id].stripeSubscriptionId # NULL

\* C29 witness: the organization was on the free tier again after a deletion,
\* and a later event put it back on the team plan, with subscription reference
C29_Witness ==
    /\ "o1" \in DOMAIN orgs
    /\ DeletionApplied("o1")
    /\ request.event.type # "customer.subscription.deleted"
    /\ orgs["o1"].planId = "team"
    /\ orgs["o1"].stripeSubscriptionId = "sub1"

-----------------------------------------------------------------------------
(* Single membership *)

\* C30: no operation changes the organizationId of a user who has one:
\* a user who belongs to an organization stays in it, whether they redeem a
\* token or call createOrganization.
C30_AffiliationNeverChanges ==
    [][\A u \in DOMAIN users :
         users[u].organizationId # NULL
           => ( /\ u \in DOMAIN users'
                /\ users'[u].organizationId = users[u].organizationId )]_vars

====
